---- MODULE Spec2Model ----
(***************************************************************************)
(* Share chain core of p2pool (src/p2pool/data.py): payout computation of  *)
(* generate_transaction, the weights lookup, share construction and wire   *)
(* dispatch, check(tracker) and the head selection of OkayTracker.think.   *)
(*                                                                         *)
(* Python integers are unbounded, TLC's are 32 bit: quotients of products  *)
(* are computed by FloorMulDiv, which yields floor(a*b/c) exactly without  *)
(* forming a*b.                                                            *)
(***************************************************************************)
EXTENDS Integers, Sequences, FiniteSets, TLC

VARIABLES
    net,        \* the net parameter every operation receives (p2pool.networks)
    chain,      \* the tracker's shares from a start share backward, nearest first
    chain_last, \* previous hash of the last known share (None: chain complete)
    sk_pc,      \* position inside a get_cumulative_weights lookup
    sk_args,    \* its arguments (max_shares, desired_weight)
    sk_pos,     \* index in chain of the share the walk stands on
    sk_sol,     \* the solution accumulated so far
    sk_res,     \* the finalized result
    gt_pc,      \* position inside generate_transaction
    gt_in,      \* arguments of the running generate_transaction call
    gt_weights, \* result of tracker.get_cumulative_weights
    gt_amts,    \* the amounts dict
    gt_gentx,   \* outcome: status and the gentx tx_outs
    wire_in,    \* the last envelope handed to load_share / header to get_share
    wire_out,   \* what came of it: a share object or the error raised
    items,      \* OkayTracker.items: share hash -> share
    verified,   \* hashes of the shares in OkayTracker.verified
    tk_pc,      \* position inside think
    tk,         \* think's arguments and locals (desired, bads, the walk)
    av,         \* the last attempt_verify call of the running think
    tk_out,     \* what think returned
    call,       \* a function of the module applied to arguments, and its result
    store       \* the ShareStore: its files, its two indexes and a running get_shares

chain_vars == <<chain, chain_last>>
sk_vars == <<sk_pc, sk_args, sk_pos, sk_sol, sk_res>>
gt_vars == <<gt_pc, gt_in, gt_weights, gt_amts, gt_gentx>>

wire_vars == <<wire_in, wire_out>>

tk_vars == <<items, verified, tk_pc, tk, av, tk_out>>

vars == <<net, chain_vars, sk_vars, gt_vars, wire_vars, tk_vars, call, store>>

None == "None"

\* ------------------------------------------------------------------ numbers

Min(a, b) == IF a < b THEN a ELSE b
Max(a, b) == IF a > b THEN a ELSE b

\* <<q, r>> with a*b = q*c + r and 0 <= r < c, for a, b >= 0 and 0 < c < 2^30
RECURSIVE MulDivMod(_, _, _)
MulDivMod(a, b, c) ==
    IF b = 0 THEN <<0, 0>>
    ELSE LET h  == MulDivMod(a, b \div 2, c)
             q2 == 2 * h[1] + (2 * h[2]) \div c
             r2 == (2 * h[2]) % c
         IN  IF b % 2 = 1
             THEN <<q2 + (a \div c) + (r2 + (a % c)) \div c, (r2 + (a % c)) % c>>
             ELSE <<q2, r2>>

\* floor(a*b/c)
FloorMulDiv(a, b, c) == MulDivMod(a, b, c)[1]

\* ------------------------------------------------------------------ dicts
\* A Python dict is a function whose DOMAIN is its key set.

EmptyDict == [k \in {} |-> 0]

DictGet(d, k, default) == IF k \in DOMAIN d THEN d[k] ELSE default

\* math.add_dicts: component-wise addition
add_dicts(a, b) ==
    [k \in DOMAIN a \cup DOMAIN b |-> DictGet(a, k, 0) + DictGet(b, k, 0)]

\* sum(d.itervalues()) for integer keys in lo..hi
RECURSIVE SumValues(_, _, _)
SumValues(d, lo, hi) ==
    IF lo > hi THEN 0
    ELSE IF lo = hi THEN DictGet(d, lo, 0)
    ELSE LET mid == (lo + hi) \div 2
         IN  SumValues(d, lo, mid) + SumValues(d, mid + 1, hi)

\* ------------------------------------------------------------------ constants

\* DONATION_SCRIPT: scripts are integers ordered as the byte strings are; a
\* share's new_script (pay-to-pubkey-hash) is never the donation script.
DONATION_SCRIPT == 0

\* weight of one unit of work; share_data.donation is a numerator over it
WEIGHT_UNIT == 65535

\* dests[-4000:]
MAX_DESTS == 4000

\* ------------------------------------------------------------------ WeightsSkipList
\* A share of the chain is [script, att, donation, ...] with
\* att = target_to_average_attempts(share.target).
\* A delta is [count, weights, total, don]; a solution is
\* [count, wl, total, don, ok]: wl the list of per-hop weight dicts, ok false
\* once an assertion of the code has failed.

get_delta(share) ==
    [count   |-> 1,
     weights |-> (share.script :> share.att * (WEIGHT_UNIT - share.donation)),
     total   |-> share.att * WEIGHT_UNIT,
     don     |-> share.att * share.donation]

combine_deltas(d1, d2) ==
    [count   |-> d1.count + d2.count,
     weights |-> add_dicts(d1.weights, d2.weights),
     total   |-> d1.total + d2.total,
     don     |-> d1.don + d2.don]

initial_solution(args) ==
    [count |-> 0, wl |-> <<>>, total |-> 0, don |-> 0,
     ok |-> (args.desired_weight % WEIGHT_UNIT = 0)]

\* faulty variant: the donation of the share that is cut is counted whole
apply_delta_whole_donation(sol, d, args) ==
    IF sol.total + d.total > args.desired_weight /\ d.count = 1
    THEN LET script == CHOOSE k \in DOMAIN d.weights : TRUE
             rest   == (args.desired_weight - sol.total) \div WEIGHT_UNIT
             per    == d.total \div WEIGHT_UNIT
         IN  [count |-> sol.count + d.count,
              wl    |-> Append(sol.wl, (script :> FloorMulDiv(rest, d.weights[script], per))),
              total |-> args.desired_weight,
              don   |-> sol.don + d.don,
              ok    |-> sol.ok /\ ((args.desired_weight - sol.total) % WEIGHT_UNIT = 0)]
    ELSE [count |-> sol.count + d.count,
          wl    |-> Append(sol.wl, d.weights),
          total |-> sol.total + d.total,
          don   |-> sol.don + d.don,
          ok    |-> sol.ok]

\* faulty variant: the share that crosses desired_weight is not cut
apply_delta_uncut(sol, d, args) ==
    [count |-> sol.count + d.count,
     wl    |-> Append(sol.wl, d.weights),
     total |-> sol.total + d.total,
     don   |-> sol.don + d.don,
     ok    |-> sol.ok]

apply_delta(sol, d, args) ==
    IF sol.total + d.total > args.desired_weight /\ d.count = 1
    THEN LET script == CHOOSE k \in DOMAIN d.weights : TRUE
             rest   == (args.desired_weight - sol.total) \div WEIGHT_UNIT
             per    == d.total \div WEIGHT_UNIT
         IN  [count |-> sol.count + d.count,
              wl    |-> Append(sol.wl, (script :> FloorMulDiv(rest, d.weights[script], per))),
              total |-> args.desired_weight,
              don   |-> sol.don + FloorMulDiv(rest, d.don, per),
              ok    |-> sol.ok /\ ((args.desired_weight - sol.total) % WEIGHT_UNIT = 0)]
    ELSE [count |-> sol.count + d.count,
          wl    |-> Append(sol.wl, d.weights),
          total |-> sol.total + d.total,
          don   |-> sol.don + d.don,
          ok    |-> sol.ok]

judge(sol, args) ==
    IF sol.count > args.max_shares \/ sol.total > args.desired_weight THEN 1
    ELSE IF sol.count = args.max_shares \/ sol.total = args.desired_weight THEN 0
    ELSE -1

RECURSIVE FlattenAdd(_, _, _)
FlattenAdd(wl, lo, hi) ==
    IF lo > hi THEN EmptyDict
    ELSE IF lo = hi THEN wl[lo]
    ELSE LET mid == (lo + hi) \div 2
         IN  add_dicts(FlattenAdd(wl, lo, mid), FlattenAdd(wl, mid + 1, hi))

\* (weights, total_weight, total_donation_weight), or AssertionError
finalize(sol, args) ==
    IF /\ sol.ok
       /\ sol.count <= args.max_shares /\ sol.total <= args.desired_weight
       /\ (sol.count = args.max_shares \/ sol.total = args.desired_weight)
    THEN [status  |-> "ok",
          weights |-> FlattenAdd(sol.wl, 1, Len(sol.wl)),
          total   |-> sol.total,
          don     |-> sol.don,
          count   |-> sol.count]
    ELSE [status |-> "AssertionError", weights |-> EmptyDict, total |-> 0,
          don |-> 0, count |-> sol.count]

\* the delta of the skip over ch[lo..hi]: get_delta of each, combined
RECURSIVE RangeDelta(_, _, _)
RangeDelta(ch, lo, hi) ==
    IF lo = hi THEN get_delta(ch[lo])
    ELSE LET mid == (lo + hi) \div 2
         IN  combine_deltas(RangeDelta(ch, lo, mid), RangeDelta(ch, mid + 1, hi))

\* SkipList.__call__ offering the shares ch[lo..hi] to sol: a skip over the
\* whole range is taken when judge accepts it, else the range is halved; a
\* single share that judge rejects is the driver's AssertionError.
\* Yields [sol, st] with st "more" (range consumed), "done" (judge = 0) or
\* "AssertionError".
RECURSIVE SkipWalk(_, _, _, _, _)
SkipWalk(ch, lo, hi, sol, args) ==
    IF lo > hi THEN [sol |-> sol, st |-> "more"]
    ELSE LET sol_if == apply_delta(sol, RangeDelta(ch, lo, hi), args)
             j      == judge(sol_if, args)
         IN  IF j = 0 THEN [sol |-> sol_if, st |-> "done"]
             ELSE IF j < 0 THEN [sol |-> sol_if, st |-> "more"]
             ELSE IF lo = hi THEN [sol |-> sol_if, st |-> "AssertionError"]
             ELSE LET mid == (lo + hi) \div 2
                      a   == SkipWalk(ch, lo, mid, sol, args)
                  IN  IF a.st = "more" THEN SkipWalk(ch, mid + 1, hi, a.sol, args)
                      ELSE a

\* tracker.get_cumulative_weights(start, max_shares, desired_weight) where ch
\* is the chain of shares from start backward
get_cumulative_weights(ch, max_shares, desired_weight) ==
    LET args == [max_shares |-> max_shares, desired_weight |-> desired_weight]
        sol0 == initial_solution(args)
    IN  IF ~sol0.ok THEN finalize(sol0, args)
        ELSE IF judge(sol0, args) = 0 THEN finalize(sol0, args)
        ELSE LET w == SkipWalk(ch, 1, Len(ch), sol0, args)
             IN  IF w.st = "done" THEN finalize(w.sol, args)
                 ELSE [status |-> IF w.st = "more" THEN "KeyError" ELSE "AssertionError",
                       weights |-> EmptyDict, total |-> 0, don |-> 0,
                       count |-> w.sol.count]

\* ------------------------------------------------------------------ generate_transaction
\* The payout part, identical in Share (V7), NewShare (V8) and NewNewShare (V9).

\* max script id among ch[lo..hi]
RECURSIVE MaxScript(_, _, _)
MaxScript(ch, lo, hi) ==
    IF lo > hi THEN 0
    ELSE IF lo = hi THEN ch[lo].script
    ELSE LET mid == (lo + hi) \div 2
         IN  Max(MaxScript(ch, lo, mid), MaxScript(ch, mid + 1, hi))

\* faulty variant: the finder's fee replaces what the finder's weight earned
gt_amounts_fee_only(weights, total_weight, subsidy, this_script) ==
    LET a1 == [s \in DOMAIN weights |->
                  FloorMulDiv(199 * weights[s], subsidy, total_weight) \div 200]
        a2 == [s \in DOMAIN a1 \cup {this_script} |->
                  IF s = this_script THEN subsidy \div 200 ELSE a1[s]]
        hi == Max(this_script, IF DOMAIN weights = {} THEN 0
                               ELSE CHOOSE m \in DOMAIN weights :
                                        \A k \in DOMAIN weights : k <= m)
    IN  [s \in DOMAIN a2 \cup {DONATION_SCRIPT} |->
            IF s = DONATION_SCRIPT
            THEN DictGet(a2, s, 0) + subsidy - SumValues(a2, 0, hi)
            ELSE a2[s]]

\* amounts: 99.5% by weight, 0.5% to the finder, the rest to the donation script
gt_amounts(weights, total_weight, subsidy, this_script) ==
    LET a1 == [s \in DOMAIN weights |->
                  FloorMulDiv(199 * weights[s], subsidy, total_weight) \div 200]
        a2 == [s \in DOMAIN a1 \cup {this_script} |->
                  IF s = this_script THEN DictGet(a1, s, 0) + subsidy \div 200
                  ELSE a1[s]]
        hi == Max(this_script, IF DOMAIN weights = {} THEN 0
                               ELSE CHOOSE m \in DOMAIN weights :
                                        \A k \in DOMAIN weights : k <= m)
    IN  [s \in DOMAIN a2 \cup {DONATION_SCRIPT} |->
            IF s = DONATION_SCRIPT
            THEN DictGet(a2, s, 0) + subsidy - SumValues(a2, 0, hi)
            ELSE a2[s]]

\* the sort key (script == DONATION_SCRIPT, amounts[script], script)
KeyLess(amounts, s, t) ==
    LET ds == IF s = DONATION_SCRIPT THEN 1 ELSE 0
        dt == IF t = DONATION_SCRIPT THEN 1 ELSE 0
    IN  \/ ds < dt
        \/ ds = dt /\ amounts[s] < amounts[t]
        \/ ds = dt /\ amounts[s] = amounts[t] /\ s < t

\* sorted(amounts.iterkeys(), key=...)[-MAX_DESTS:] as a set: the sorted list
\* without its first excess entries; its order is KeyLess
RECURSIVE DropLowest(_, _, _)
DropLowest(amounts, S, excess) ==
    IF excess <= 0 THEN S
    ELSE LET lowest == CHOOSE s \in S : \A t \in S : ~KeyLess(amounts, t, s)
         IN  DropLowest(amounts, S \ {lowest}, excess - 1)

gt_dests(amounts) ==
    DropLowest(amounts, DOMAIN amounts, Cardinality(DOMAIN amounts) - MAX_DESTS)

\* tx_outs without the final reference output: script -> value, listed in
\* KeyLess order
gt_tx_outs(amounts, dests) ==
    [s \in {d \in dests : amounts[d] # 0 \/ d = DONATION_SCRIPT} |-> amounts[s]]

\* value of the final output ('\x20' + ref_hash, '\x24' + ref_hash + nonce)
REF_OUTPUT_VALUE == 0

\* ------------------------------------------------------------------ SpecPay
\* generate_transaction's payout over a tracker chain, one step per stage.

MaxChain == 2

Scripts   == {1, 2}
Atts      == {1, 2}
Donations == {0, 13107}
Subsidies == {0, 199, 200, 5000000}
BlockAtts == {1, 5000}

\* shares as peers deliver them; a V7 share's bits may encode a target above
\* 2^256, whose average attempts are 0
ChainShares == [script : Scripts, att : Atts, donation : Donations]
               \cup {[script |-> 1, att |-> 0, donation |-> 0]}

\* a chain holding more distinct scripts than a gentx may pay
LongChain == [i \in 1..(MAX_DESTS + 1) |-> [script |-> i, att |-> 1, donation |-> 0]]

SmallNets == {[REAL_CHAIN_LENGTH |-> r, SPREAD |-> 3] : r \in {1, 3}}
LongNet   == [REAL_CHAIN_LENGTH |-> 8640, SPREAD |-> 3]

NoCall == [status |-> None]

\* no lookup in progress / no generate_transaction in progress
SkIdle == sk_pc = "idle" /\ sk_args = NoCall /\ sk_pos = 0 /\ sk_sol = NoCall
          /\ sk_res = NoCall
GtIdle == gt_pc = "idle" /\ gt_in = NoCall /\ gt_weights = NoCall
          /\ gt_amts = EmptyDict /\ gt_gentx = NoCall
SkReset == sk_pc' = "idle" /\ sk_args' = NoCall /\ sk_pos' = 0 /\ sk_sol' = NoCall
           /\ sk_res' = NoCall
GtReset == gt_pc' = "idle" /\ gt_in' = NoCall /\ gt_weights' = NoCall
           /\ gt_amts' = EmptyDict /\ gt_gentx' = NoCall

WireIdle == wire_in = NoCall /\ wire_out = NoCall
TkIdle ==
    /\ items = <<>> /\ verified = {}
    /\ tk_pc = "idle" /\ tk = NoCall /\ av = NoCall /\ tk_out = NoCall

PayInit ==
    /\ call = NoCall /\ store = NoCall
    /\ \/ net \in SmallNets /\ chain = <<>>
       \/ net = LongNet /\ chain = LongChain
    /\ chain_last \in {None, "missing"}
    /\ GtIdle
    /\ SkIdle
    /\ WireIdle /\ TkIdle

\* tracker.add of a share that becomes the previous share of the next call
TrackerAdd(share, limit) ==
    /\ gt_pc \in {"idle", "done"} /\ sk_pc = "idle"
    /\ Len(chain) < limit
    /\ chain' = <<share>> \o chain
    /\ GtReset /\ SkReset
    /\ UNCHANGED <<net, store, call, chain_last, wire_vars, tk_vars>>

\* generate_transaction(tracker, share_data, block_target, ...): entry,
\* height and the assertion on it
GT_Call(subsidy, this_script, block_att) ==
    /\ gt_pc \in {"idle", "done"}
    /\ gt_in' = [status |-> "called", subsidy |-> subsidy,
                 this_script |-> this_script, block_att |-> block_att]
    /\ gt_weights' = NoCall /\ gt_amts' = EmptyDict
    /\ IF Len(chain) >= net.REAL_CHAIN_LENGTH \/ chain_last = None
       THEN gt_pc' = "weights" /\ gt_gentx' = NoCall
       ELSE gt_pc' = "done" /\ gt_gentx' = [status |-> "AssertionError"]
    /\ UNCHANGED <<net, store, call, chain_vars, wire_vars, tk_vars, sk_vars>>

\* weights, total_weight, donation_weight = tracker.get_cumulative_weights(...)
\* and the assertion on their sum
GT_Weights ==
    /\ gt_pc = "weights"
    /\ LET cw == get_cumulative_weights(chain,
                     Min(Len(chain), net.REAL_CHAIN_LENGTH),
                     WEIGHT_UNIT * net.SPREAD * gt_in.block_att)
       IN  /\ gt_weights' = cw
           /\ IF cw.status # "ok"
              THEN gt_pc' = "done" /\ gt_gentx' = [status |-> cw.status]
              ELSE gt_pc' = "sum" /\ gt_gentx' = gt_gentx
    /\ UNCHANGED <<net, store, call, chain_vars, wire_vars, tk_vars, sk_vars, gt_in, gt_amts>>

GT_AssertSum ==
    /\ gt_pc = "sum"
    /\ IF gt_weights.total =
            SumValues(gt_weights.weights, 0, MaxScript(chain, 1, Len(chain)))
            + gt_weights.don
       THEN gt_pc' = "amounts" /\ gt_gentx' = gt_gentx
       ELSE gt_pc' = "done" /\ gt_gentx' = [status |-> "AssertionError"]
    /\ UNCHANGED <<net, store, call, chain_vars, wire_vars, tk_vars, sk_vars, gt_in, gt_weights, gt_amts>>

\* amounts and the ValueError test on them
GT_Amounts ==
    /\ gt_pc = "amounts"
    /\ IF gt_weights.total = 0 /\ DOMAIN gt_weights.weights # {}
       THEN /\ gt_pc' = "done" /\ gt_gentx' = [status |-> "ZeroDivisionError"]
            /\ gt_amts' = gt_amts
       ELSE /\ gt_amts' = gt_amounts(gt_weights.weights, gt_weights.total,
                                     gt_in.subsidy, gt_in.this_script)
            /\ gt_pc' = "check" /\ gt_gentx' = gt_gentx
    /\ UNCHANGED <<net, store, call, chain_vars, wire_vars, tk_vars, sk_vars, gt_in, gt_weights>>

GT_CheckAmounts ==
    /\ gt_pc = "check"
    /\ LET hi == Max(gt_in.this_script, MaxScript(chain, 1, Len(chain)))
       IN  IF \/ SumValues(gt_amts, 0, hi) # gt_in.subsidy
              \/ \E s \in DOMAIN gt_amts : gt_amts[s] < 0
           THEN gt_pc' = "done" /\ gt_gentx' = [status |-> "ValueError"]
           ELSE gt_pc' = "gentx" /\ gt_gentx' = gt_gentx
    /\ UNCHANGED <<net, store, call, chain_vars, wire_vars, tk_vars, sk_vars, gt_in, gt_weights, gt_amts>>

\* dests and the gentx
GT_Gentx ==
    /\ gt_pc = "gentx"
    /\ gt_gentx' = [status  |-> "ok",
                    tx_outs |-> gt_tx_outs(gt_amts, gt_dests(gt_amts)),
                    ref_out |-> REF_OUTPUT_VALUE]
    /\ gt_pc' = "done"
    /\ UNCHANGED <<net, store, call, chain_vars, wire_vars, tk_vars, sk_vars, gt_in, gt_weights, gt_amts>>

PayNext ==
    \/ \E share \in ChainShares : TrackerAdd(share, MaxChain)
    \/ \E subsidy \in Subsidies, this_script \in Scripts, block_att \in BlockAtts :
          GT_Call(subsidy, this_script, block_att)
    \/ GT_Weights
    \/ GT_AssertSum
    \/ GT_Amounts
    \/ GT_CheckAmounts
    \/ GT_Gentx

SpecPay == PayInit /\ [][PayNext]_vars

\* sum of the values of the gentx outputs
GentxOutputSum ==
    SumValues(gt_gentx.tx_outs, 0,
              Max(gt_in.this_script, MaxScript(chain, 1, Len(chain))))
    + gt_gentx.ref_out

\* C1: every gentx returned by generate_transaction has output values that
\* sum to exactly share_data.subsidy, each of them >= 0.
C1_OutputsSumToSubsidy ==
    (gt_pc = "done" /\ gt_gentx.status = "ok") =>
        /\ GentxOutputSum = gt_in.subsidy
        /\ \A s \in DOMAIN gt_gentx.tx_outs : gt_gentx.tx_outs[s] >= 0
        /\ gt_gentx.ref_out >= 0

\* ------------------------------------------------------------------ SpecWeights
\* WeightsSkipList lookups over a tracker chain. The skip list hops over any
\* number of shares at once (a skip judge rejects is not taken; the hop over
\* one share is always there).

MaxWalkChain == 3
MaxSkip == 3

MaxSharesArgs  == 0..(MaxWalkChain + 1)
DesiredWeights == {0, WEIGHT_UNIT, 2 * WEIGHT_UNIT, 3 * WEIGHT_UNIT,
                   WEIGHT_UNIT + 1}

WeightsInit ==
    /\ call = NoCall /\ store = NoCall
    /\ net \in {n \in SmallNets : n.REAL_CHAIN_LENGTH = 3}
    /\ chain = <<>>
    /\ chain_last = None
    /\ GtIdle
    /\ SkIdle
    /\ WireIdle /\ TkIdle

\* SkipList.__call__(start, max_shares, desired_weight): initial solution
SK_Call(max_shares, desired_weight) ==
    /\ sk_pc = "idle"
    /\ LET args == [max_shares |-> max_shares, desired_weight |-> desired_weight]
           sol0 == initial_solution(args)
       IN  /\ sk_args' = args
           /\ sk_sol' = sol0
           /\ IF ~sol0.ok \/ judge(sol0, args) = 0
              THEN sk_pc' = "done" /\ sk_res' = finalize(sol0, args) /\ sk_pos' = 0
              ELSE sk_pc' = "walk" /\ sk_res' = NoCall /\ sk_pos' = 1
    /\ UNCHANGED <<net, store, call, chain_vars, gt_vars, wire_vars, tk_vars>>

\* one hop of the walk: the longest skip at sk_pos that judge does not reject
SK_Step(k) ==
    /\ sk_pc = "walk"
    /\ sk_pos + k - 1 <= Len(chain)
    /\ LET sol_if == apply_delta(sk_sol, RangeDelta(chain, sk_pos, sk_pos + k - 1), sk_args)
           j      == judge(sol_if, sk_args)
       IN  /\ j <= 0 \/ k = 1
           /\ sk_sol' = sol_if
           /\ IF j = 0
              THEN sk_pc' = "done" /\ sk_res' = finalize(sol_if, sk_args)
                   /\ sk_pos' = sk_pos
              ELSE IF j < 0
              THEN sk_pc' = "walk" /\ sk_res' = sk_res /\ sk_pos' = sk_pos + k
              ELSE sk_pc' = "done" /\ sk_pos' = sk_pos
                   /\ sk_res' = [status |-> "AssertionError", weights |-> EmptyDict,
                                 total |-> 0, don |-> 0, count |-> sol_if.count]
    /\ UNCHANGED <<net, store, call, chain_vars, sk_args, gt_vars, wire_vars, tk_vars>>

\* the walk steps past the last share of the tracker: tracker.items[None]
SK_RunOut ==
    /\ sk_pc = "walk"
    /\ sk_pos > Len(chain)
    /\ sk_pc' = "done"
    /\ sk_res' = [status |-> "KeyError", weights |-> EmptyDict, total |-> 0,
                  don |-> 0, count |-> sk_sol.count]
    /\ UNCHANGED <<net, store, call, chain_vars, sk_args, sk_pos, sk_sol, gt_vars, wire_vars, tk_vars>>

\* the caller has taken the result
SK_Return ==
    /\ sk_pc = "done"
    /\ SkReset
    /\ UNCHANGED <<net, store, call, chain_vars, gt_vars, wire_vars, tk_vars>>

WeightsNext ==
    \/ \E share \in ChainShares : TrackerAdd(share, MaxWalkChain)
    \/ \E max_shares \in MaxSharesArgs, desired_weight \in DesiredWeights :
          SK_Call(max_shares, desired_weight)
    \/ \E k \in 1..MaxSkip : SK_Step(k)
    \/ SK_RunOut
    \/ SK_Return

SpecWeights == WeightsInit /\ [][WeightsNext]_vars

\* attempts*65535 summed over the first n shares of the chain
RECURSIVE PrefixTotal(_)
PrefixTotal(n) == IF n = 0 THEN 0 ELSE chain[n].att * WEIGHT_UNIT + PrefixTotal(n - 1)

\* the share at which the walk from the start reaches desired_weight, 0 if
\* the first max_shares shares do not carry that much
CrossingShare ==
    IF sk_args.desired_weight = 0 THEN 0
    ELSE IF PrefixTotal(sk_args.max_shares) < sk_args.desired_weight THEN 0
    ELSE CHOOSE n \in 1..sk_args.max_shares :
            /\ PrefixTotal(n) >= sk_args.desired_weight
            /\ PrefixTotal(n - 1) < sk_args.desired_weight

\* weight of script s over the first n shares taken whole
RECURSIVE WholeWeight(_, _)
WholeWeight(s, n) ==
    IF n = 0 THEN 0
    ELSE (IF chain[n].script = s THEN chain[n].att * (WEIGHT_UNIT - chain[n].donation)
          ELSE 0) + WholeWeight(s, n - 1)

\* weight of script s when the walk ends inside share n: the shares before n
\* whole, share n cut to the units of work still missing
CutWeight(s, n) ==
    WholeWeight(s, n - 1)
    + (IF chain[n].script = s
       THEN ((sk_args.desired_weight - PrefixTotal(n - 1)) \div WEIGHT_UNIT)
            * (WEIGHT_UNIT - chain[n].donation)
       ELSE 0)

SkPrecondition ==
    /\ sk_pc = "done"
    /\ sk_args.desired_weight % WEIGHT_UNIT = 0
    /\ Len(chain) >= sk_args.max_shares

\* C2: a lookup with desired_weight a multiple of 65535 on a chain of at least
\* max_shares shares returns total_weight = desired_weight when the first
\* max_shares shares carry that much (the crossing share cut proportionally,
\* nothing after it counted), else the whole weight of exactly the first
\* max_shares shares; never more than max_shares shares are consumed.
C2_LookupTotal ==
    SkPrecondition =>
        /\ sk_res.status = "ok"
        /\ sk_res.count <= sk_args.max_shares
        /\ IF PrefixTotal(sk_args.max_shares) >= sk_args.desired_weight
           THEN /\ sk_res.total = sk_args.desired_weight
                /\ \A s \in Scripts :
                      DictGet(sk_res.weights, s, 0) =
                          IF CrossingShare = 0 THEN 0 ELSE CutWeight(s, CrossingShare)
           ELSE /\ sk_res.total = PrefixTotal(sk_args.max_shares)
                /\ sk_res.count = sk_args.max_shares
                /\ \A s \in Scripts :
                      DictGet(sk_res.weights, s, 0) = WholeWeight(s, sk_args.max_shares)

\* a lookup that ended inside a share, after at least one whole share
C2_Witness ==
    /\ SkPrecondition
    /\ sk_res.status = "ok"
    /\ sk_res.count >= 2
    /\ sk_res.total = sk_args.desired_weight
    /\ PrefixTotal(sk_res.count) > sk_args.desired_weight

\* ------------------------------------------------------------------ share construction
\* The contents of an envelope as the constructors read them: coinbase_len =
\* len(share_data.coinbase), branch_len = len(merkle_link.branch), extra_len =
\* len(hash_link.extra_data), target = share_info.bits.target, block_target =
\* min_header.bits.target, pow_hash = net.PARENT.POW_FUNC of the header the
\* contents determine, refs and new_hashes as in share_info (V8, V9), other_txs
\* the transactions of a share1b (V7).

Raise(kind, msg) == [status |-> kind, msg |-> msg, share |-> None]

SeqRange(q) == {q[i] : i \in 1..Len(q)}

\* smallest d with 2^d >= n
RECURSIVE CeilLog2(_)
CeilLog2(n) == IF n <= 1 THEN 0 ELSE 1 + CeilLog2((n + 1) \div 2)

\* bitcoin_data.calculate_merkle_link(hashes, 0): the branch from leaf 0 to the
\* root over the given leaves; the value of leaf 0 itself is not part of it
calculate_merkle_link(leaves) ==
    [branch_len |-> CeilLog2(Len(leaves)), over |-> Tail(leaves)]

ShareObject(VERSION, peer, c, merkle_link, other_txs) ==
    [status |-> "ok", msg |-> "",
     share  |-> [VERSION |-> VERSION, peer |-> peer, target |-> c.target,
                 pow_hash |-> c.pow_hash, block_target |-> c.block_target,
                 merkle_link |-> merkle_link, other_txs |-> other_txs,
                 contents |-> c]]

\* faulty variant: the PoW test compares against max_target's bound instead of target
NewShare_init_pow_unchecked(VERSION, n, peer, c) ==
    IF ~(2 <= c.coinbase_len /\ c.coinbase_len <= 100)
    THEN Raise("ValueError", "bad coinbase size")
    ELSE IF c.merkle_link.branch_len > 16
    THEN Raise("ValueError", "merkle branch too long")
    ELSE IF c.extra_len # 0
    THEN Raise("AssertionError", "extra_data")
    ELSE IF \E x \in SeqRange(c.refs) : ~(x.share_count < 110)
    THEN Raise("AssertionError", "share_count")
    ELSE IF \E i \in 1..Len(c.new_hashes) :
                [share_count |-> 0, tx_count |-> i - 1] \notin SeqRange(c.refs)
    THEN Raise("AssertionError", "new_transaction_hashes")
    ELSE IF c.target > n.MAX_TARGET
    THEN Raise("PeerMisbehavingError", "share target invalid")
    ELSE IF c.pow_hash > n.MAX_TARGET
    THEN Raise("PeerMisbehavingError", "share PoW invalid")
    ELSE ShareObject(VERSION, peer, c, c.merkle_link, None)

\* NewNewShare.__init__ (VERSION 9) and NewShare.__init__ (VERSION 8)
NewShare_init(VERSION, n, peer, c) ==
    IF ~(2 <= c.coinbase_len /\ c.coinbase_len <= 100)
    THEN Raise("ValueError", "bad coinbase size")
    ELSE IF c.merkle_link.branch_len > 16
    THEN Raise("ValueError", "merkle branch too long")
    ELSE IF c.extra_len # 0
    THEN Raise("AssertionError", "extra_data")
    ELSE IF \E x \in SeqRange(c.refs) : ~(x.share_count < 110)
    THEN Raise("AssertionError", "share_count")
    ELSE IF \E i \in 1..Len(c.new_hashes) :
                [share_count |-> 0, tx_count |-> i - 1] \notin SeqRange(c.refs)
    THEN Raise("AssertionError", "new_transaction_hashes")
    ELSE IF c.target > n.MAX_TARGET
    THEN Raise("PeerMisbehavingError", "share target invalid")
    ELSE IF c.pow_hash > c.target
    THEN Raise("PeerMisbehavingError", "share PoW invalid")
    ELSE ShareObject(VERSION, peer, c, c.merkle_link, None)

\* Share.__init__ (VERSION 7)
Share_init(n, peer, c, merkle_link, other_txs) ==
    IF c.coinbase_len > 100
    THEN Raise("ValueError", "coinbase too large")
    ELSE IF merkle_link.branch_len > 16
    THEN Raise("ValueError", "merkle branch too long")
    ELSE IF /\ n.DEBUG /\ other_txs # None
            /\ calculate_merkle_link(<<0>> \o other_txs) # merkle_link
    THEN Raise("ValueError", "merkle_link and other_txs do not match")
    ELSE IF c.extra_len # 0
    THEN Raise("AssertionError", "extra_data")
    ELSE IF c.pow_hash > c.target
    THEN Raise("PeerMisbehavingError", "share PoW invalid")
    ELSE IF other_txs # None /\ ~(c.pow_hash <= c.block_target)
    THEN Raise("ValueError", "other_txs provided when not a block solution")
    ELSE IF other_txs = None /\ c.pow_hash <= c.block_target
    THEN Raise("ValueError", "other_txs not provided when a block solution")
    ELSE ShareObject(7, peer, c, merkle_link, other_txs)

\* faulty variant: type 3 is no longer in the obsolete list and type 4 is read as a
\* share1b
load_share_shifted(share, n, peer) ==
    IF share.type \in {0, 1, 2}
    THEN Raise("PeerMisbehavingError", "sent an obsolete share")
    ELSE IF share.type \in {4, 5}
    THEN Share_init(n, peer, share.contents,
                    calculate_merkle_link(<<0>> \o share.contents.other_txs),
                    share.contents.other_txs)
    ELSE IF share.type = 8
    THEN NewShare_init(8, n, peer, share.contents)
    ELSE IF share.type = 9
    THEN NewShare_init(9, n, peer, share.contents)
    ELSE Raise("ValueError", "unknown share type")

\* load_share(share, net, peer)
load_share(share, n, peer) ==
    IF share.type \in {0, 1, 2, 3}
    THEN Raise("PeerMisbehavingError", "sent an obsolete share")
    ELSE IF share.type = 4
    THEN Share_init(n, peer, share.contents, share.contents.merkle_link, None)
    ELSE IF share.type = 5
    THEN Share_init(n, peer, share.contents,
                    calculate_merkle_link(<<0>> \o share.contents.other_txs),
                    share.contents.other_txs)
    ELSE IF share.type = 8
    THEN NewShare_init(8, n, peer, share.contents)
    ELSE IF share.type = 9
    THEN NewShare_init(9, n, peer, share.contents)
    ELSE Raise("ValueError", "unknown share type")

\* get_share(header, transactions) of generate_transaction: the share is built
\* locally (peer None) with an empty ref_merkle_link and a computed merkle_link
get_share(VERSION, n, c, transactions) ==
    IF VERSION = 7
    THEN Share_init(n, None, c, calculate_merkle_link(<<0>> \o transactions),
                    IF c.pow_hash <= c.block_target THEN transactions ELSE None)
    ELSE NewShare_init(VERSION, n, None,
                       [c EXCEPT !.merkle_link = calculate_merkle_link(<<0>> \o transactions)])

\* the share_common_type part of a V7 share's fields: what share1a and share1b
\* both carry (merkle_link and other_txs are packed beside it, not in it)
share_common(c) ==
    [c EXCEPT !.merkle_link = [branch_len |-> 0, over |-> <<>>], !.other_txs = <<>>]

\* faulty variant: every V7 share is emitted as a share1a
as_share_always_1a(share) ==
    IF share.VERSION = 7
    THEN [status |-> "ok", msg |-> "",
          share |-> [type |-> 4,
                     contents |-> [share_common(share.contents) EXCEPT
                                      !.merkle_link = share.merkle_link]]]
    ELSE [status |-> "ok", msg |-> "",
          share |-> [type |-> share.VERSION, contents |-> share.contents]]

\* as_share(): the envelope of a share.  share1a_type packs common and
\* merkle_link, share1b_type packs common and other_txs (packing None as a
\* list fails), share_type of V8/V9 packs the contents
as_share(share) ==
    IF share.VERSION = 7
    THEN IF ~(share.pow_hash <= share.block_target)
         THEN [status |-> "ok", msg |-> "",
               share |-> [type |-> 4,
                          contents |-> [share_common(share.contents) EXCEPT
                                           !.merkle_link = share.merkle_link]]]
         ELSE IF share.other_txs = None
         THEN Raise("TypeError", "other_txs is None")
         ELSE [status |-> "ok", msg |-> "",
               share |-> [type |-> 5,
                          contents |-> [share_common(share.contents) EXCEPT
                                           !.other_txs = share.other_txs]]]
    ELSE [status |-> "ok", msg |-> "",
          share |-> [type |-> share.VERSION, contents |-> share.contents]]

\* ------------------------------------------------------------------ tracker
\* forest.Tracker over items: a function from share hash to share.  A share
\* is a record of the fields check and think read: previous_hash, VERSION,
\* desired_version, target, timestamp, time_seen, peer, header_previous_block,
\* header_bits, header_hash, block (pow_hash <= header bits target), txs (what
\* _get_other_txs finds) and rederive (how the share's stored share_info and
\* gentx hash compare with what generate_transaction re-derives).

\* 2**256 scaled to a 16 bit hash space
HashSpace == 2^16

target_to_average_attempts(target) == HashSpace \div (target + 1)

RECURSIVE get_height(_, _)
get_height(it, h) ==
    IF h \notin DOMAIN it THEN 0 ELSE 1 + get_height(it, it[h].previous_hash)

RECURSIVE get_last(_, _)
get_last(it, h) ==
    IF h \notin DOMAIN it THEN h ELSE get_last(it, it[h].previous_hash)

RECURSIVE get_chain(_, _, _)
get_chain(it, h, n) ==
    IF n = 0 THEN <<>> ELSE <<h>> \o get_chain(it, it[h].previous_hash, n - 1)

RECURSIVE get_nth_parent_hash(_, _, _)
get_nth_parent_hash(it, h, n) ==
    IF n = 0 THEN h ELSE get_nth_parent_hash(it, it[h].previous_hash, n - 1)

RECURSIVE get_work(_, _)
get_work(it, h) ==
    IF h \notin DOMAIN it THEN 0
    ELSE target_to_average_attempts(it[h].target) + get_work(it, it[h].previous_hash)

heads(it) == {h \in DOMAIN it : \A g \in DOMAIN it : it[g].previous_hash # h}
tails(it) == {get_last(it, h) : h \in DOMAIN it}
tail_heads(it, t) == {h \in heads(it) : get_last(it, h) = t}
reverse(it, t) == {g \in DOMAIN it : it[g].previous_hash = t}
remove(it, gone) == [g \in DOMAIN it \ gone |-> it[g]]
SubsetTracker(it, ver) == [h \in ver |-> it[h]]

RECURSIVE SeqMax(_)
SeqMax(q) == IF Len(q) = 1 THEN q[1] ELSE Max(q[1], SeqMax(Tail(q)))
RECURSIVE SeqMin(_)
SeqMin(q) == IF Len(q) = 1 THEN q[1] ELSE Min(q[1], SeqMin(Tail(q)))
RECURSIVE SeqSum(_)
SeqSum(q) == IF q = <<>> THEN 0 ELSE q[1] + SeqSum(Tail(q))

\* ------------------------------------------------------------------ check

\* faulty variant: V8 is made the successor of V7
SUCCESSOR_stepwise(VERSION) ==
    IF VERSION = 7 THEN 8 ELSE IF VERSION = 8 THEN 9 ELSE 0

\* the SUCCESSOR class attribute; 0 stands for no class
SUCCESSOR(VERSION) == IF VERSION \in {7, 8} THEN 9 ELSE 0

get_desired_version_counts(it, best_share_hash, dist) ==
    LET ch == get_chain(it, best_share_hash, dist)
        versions == {it[ch[i]].desired_version : i \in 1..Len(ch)}
    IN  [v \in versions |->
            SeqSum([i \in 1..Len(ch) |->
                       IF it[ch[i]].desired_version = v
                       THEN target_to_average_attempts(it[ch[i]].target)
                       ELSE 0])]

RECURSIVE SumDict(_)
SumDict(d) ==
    IF DOMAIN d = {} THEN 0
    ELSE LET k == CHOOSE x \in DOMAIN d : TRUE
         IN  d[k] + SumDict([x \in DOMAIN d \ {k} |-> d[x]])

\* the version succession test of check; "" when it passes
check_succession(it, n, h) ==
    LET self == it[h]
        p == self.previous_hash
    IN  IF p = None THEN ""
        ELSE IF p \notin DOMAIN it THEN "KeyError"
        ELSE IF self.VERSION = it[p].VERSION THEN ""
        ELSE IF self.VERSION = SUCCESSOR(it[p].VERSION)
        THEN IF get_height(it, p) < n.CHAIN_LENGTH
             THEN "switch without enough history"
             ELSE LET counts == get_desired_version_counts(it,
                                    get_nth_parent_hash(it, p, (n.CHAIN_LENGTH * 9) \div 10),
                                    n.CHAIN_LENGTH \div 10)
                  IN  IF DictGet(counts, self.VERSION, 0) < (SumDict(counts) * 85) \div 100
                      THEN "switch without enough hash power upgraded"
                      ELSE ""
        ELSE "can't follow"

\* share.check(tracker)
check(it, n, h) ==
    LET succession == check_succession(it, n, h)
        self == it[h]
    IN  IF succession = "KeyError" THEN Raise("KeyError", "previous_share_hash")
        ELSE IF succession # "" THEN Raise("PeerMisbehavingError", succession)
        ELSE IF self.rederive = "assert" THEN Raise("AssertionError", "generate_transaction")
        ELSE IF self.rederive = "share_info" THEN Raise("ValueError", "share_info invalid")
        ELSE IF self.rederive = "gentx" THEN Raise("ValueError", "gentx doesn't match hash_link")
        ELSE IF self.rederive = "merkle_link" /\ self.VERSION # 7
        THEN Raise("ValueError", "merkle_link and other_tx_hashes do not match")
        ELSE [status |-> "ok", msg |-> "", share |-> None]

\* faulty variant: the share is entered into verified whatever check says
attempt_verify_unchecked(it, ver, n, h) ==
    IF h \in ver
    THEN [raised |-> FALSE, value |-> TRUE, verified |-> ver, check |-> NoCall]
    ELSE IF get_height(it, h) < n.CHAIN_LENGTH + 1 /\ get_last(it, h) # None
    THEN [raised |-> TRUE, value |-> FALSE, verified |-> ver, check |-> NoCall]
    ELSE [raised |-> FALSE, value |-> TRUE, verified |-> ver \cup {h},
          check |-> check(it, n, h)]

\* OkayTracker.attempt_verify(share): what it returns or raises, verified
\* afterwards, and what check did if it ran
attempt_verify(it, ver, n, h) ==
    IF h \in ver
    THEN [raised |-> FALSE, value |-> TRUE, verified |-> ver, check |-> NoCall]
    ELSE IF get_height(it, h) < n.CHAIN_LENGTH + 1 /\ get_last(it, h) # None
    THEN [raised |-> TRUE, value |-> FALSE, verified |-> ver, check |-> NoCall]
    ELSE LET r == check(it, n, h)
         IN  IF r.status # "ok"
             THEN [raised |-> FALSE, value |-> FALSE, verified |-> ver, check |-> r]
             ELSE [raised |-> FALSE, value |-> TRUE, verified |-> ver \cup {h},
                   check |-> r]

\* ------------------------------------------------------------------ think

\* should_punish_reason(...)[0]: True is 1
should_punish_reason(self, previous_block, bits) ==
    IF /\ <<self.header_previous_block, self.header_bits>> # <<previous_block, bits>>
       /\ self.header_hash # previous_block
       /\ self.peer # None
    THEN 1
    ELSE IF self.block THEN -1
    ELSE IF self.VERSION = 7 THEN 0
    ELSE IF self.txs = "missing" THEN 1
    ELSE IF self.txs = "oversize" THEN 1
    ELSE IF self.txs = "new oversize" THEN 1
    ELSE 0

\* hashes of the model, in the order Python compares them (None lowest)
TrunkHashes == <<"t01", "t02", "t03", "t04", "t05", "t06", "t07", "t08",
                 "t09", "t10", "t11", "t12", "t13", "t14", "t15", "t16",
                 "t17", "t18", "t19", "t20", "t21", "t22">>
\* the hashes of the shares that arrive on top of the trunk
ExtraHashes == <<"x1", "x2">>
AllHashes == TrunkHashes \o ExtraHashes \o <<"missing">>
HashIndex(h) ==
    IF h = None THEN 0 ELSE CHOOSE i \in 1..Len(AllHashes) : AllHashes[i] = h

\* the rate None of a short chain; None sorts below every number
NoRate == -1

\* OkayTracker.score(share_hash, block_rel_height_func)
score(it, ver, n, share_hash, block_rel_height_func) ==
    LET V == SubsetTracker(it, ver)
        head_height == get_height(V, share_hash)
    IN  IF head_height < n.CHAIN_LENGTH
        THEN [height |-> head_height, rate |-> NoRate]
        ELSE LET end_point == get_nth_parent_hash(V, share_hash,
                                                  (n.CHAIN_LENGTH * 15) \div 16)
                 ch == get_chain(V, end_point, n.CHAIN_LENGTH \div 16)
                 block_height ==
                     SeqMax([i \in 1..Len(ch) |->
                                block_rel_height_func[it[ch[i]].header_previous_block]])
             IN  [height |-> n.CHAIN_LENGTH,
                  rate |-> (get_work(V, share_hash) - get_work(V, end_point))
                           \div ((0 - block_height + 1) * n.BLOCK_PERIOD)]

\* max(self.verified.tails[tail_hash], key=self.verified.get_work): among
\* heads of equal work the set's iteration order decides
MaxWorkHeads(V, t) ==
    {h \in tail_heads(V, t) :
        \A g \in tail_heads(V, t) : get_work(V, g) <= get_work(V, h)}
PickFns(it, ver) ==
    LET V == SubsetTracker(it, ver)
    IN  {f \in [tails(V) -> ver] : \A t \in tails(V) : f[t] \in MaxWorkHeads(V, t)}

TailLess(a, b) ==
    \/ a.score.height < b.score.height
    \/ a.score.height = b.score.height /\ a.score.rate < b.score.rate
    \/ /\ a.score.height = b.score.height /\ a.score.rate = b.score.rate
       /\ HashIndex(a.tail) < HashIndex(b.tail)

decorated_tails(it, ver, n, block_rel_height_func, pick) ==
    {[score |-> score(it, ver, n, pick[t], block_rel_height_func), tail |-> t] :
        t \in tails(SubsetTracker(it, ver))}

HeadLess(a, b) ==
    \/ a.work < b.work
    \/ a.work = b.work /\ a.neg_punish < b.neg_punish
    \/ a.work = b.work /\ a.neg_punish = b.neg_punish
       /\ a.neg_time_seen < b.neg_time_seen
    \/ a.work = b.work /\ a.neg_punish = b.neg_punish
       /\ a.neg_time_seen = b.neg_time_seen /\ HashIndex(a.hash) < HashIndex(b.hash)

\* faulty variant: the time_seen component of the key is not negated
decorated_heads_latest_first(it, ver, best_tail, previous_block, bits) ==
    LET V == SubsetTracker(it, ver)
    IN  {[work |-> get_work(V, get_nth_parent_hash(V, h, Min(5, get_height(V, h)))),
          neg_punish |-> 0 - should_punish_reason(it[h], previous_block, bits),
          neg_time_seen |-> it[h].time_seen,
          hash |-> h] : h \in tail_heads(V, best_tail)}

decorated_heads(it, ver, best_tail, previous_block, bits) ==
    LET V == SubsetTracker(it, ver)
    IN  {[work |-> get_work(V, get_nth_parent_hash(V, h, Min(5, get_height(V, h)))),
          neg_punish |-> 0 - should_punish_reason(it[h], previous_block, bits),
          neg_time_seen |-> 0 - it[h].time_seen,
          hash |-> h] : h \in tail_heads(V, best_tail)}

\* faulty variant: a punished best head is kept
punished_best_kept(it, best, punish) == best

\* the back-off of think: a punished best head gives way to its parent
punished_best(it, best, punish) ==
    IF punish > 0 THEN it[best].previous_hash ELSE best

\* the last part of think: the best tail, the best head, the cutoffs and the
\* returned triple (with the values it was computed from)
think_return(it, ver, n, previous_block, bits, now, block_rel_height_func, desired, pick) ==
    LET dt == decorated_tails(it, ver, n, block_rel_height_func, pick)
        bt == CHOOSE a \in dt : \A b \in dt : b = a \/ TailLess(b, a)
        best_tail == IF dt = {} THEN None ELSE bt.tail
        dh == IF dt = {} THEN {}
              ELSE decorated_heads(it, ver, best_tail, previous_block, bits)
        top == CHOOSE a \in dh : \A b \in dh : b = a \/ HeadLess(b, a)
        punish == should_punish_reason(it[top.hash], previous_block, bits)
        timestamp_cutoff ==
            IF dh # {} THEN Min(now, it[top.hash].timestamp) - 3600
            ELSE now - 24 * 60 * 60
        target_cutoff ==
            IF dh # {} /\ bt.score.rate # NoRate
            THEN (HashSpace \div (n.SHARE_PERIOD * bt.score.rate + 1)) * 2
            ELSE HashSpace - 1
    IN  [status |-> "ok",
         best |-> IF dh = {} THEN None ELSE punished_best(it, top.hash, punish),
         want |-> {<<d.peer, d.hash>> : d \in {e \in desired : e.ts >= timestamp_cutoff}},
         decorated_heads |-> dh,
         top |-> IF dh = {} THEN None ELSE top.hash,
         rate |-> IF dt = {} THEN NoRate ELSE bt.score.rate,
         timestamp_cutoff |-> timestamp_cutoff,
         target_cutoff |-> target_cutoff]

\* faulty variant: the head is asked for, not the parent its chain lacks
desired_entry_of_head(it, peer, hash, head, head_height) ==
    LET ch == get_chain(it, head, Min(head_height, 5))
    IN  [peer |-> peer, hash |-> head,
         ts |-> SeqMax([i \in 1..Len(ch) |-> it[ch[i]].timestamp]),
         targ |-> SeqMin([i \in 1..Len(ch) |-> it[ch[i]].target])]

\* max timestamp and min target over the last (up to) 5 shares of a head
desired_entry(it, peer, hash, head, head_height) ==
    LET ch == get_chain(it, head, Min(head_height, 5))
    IN  [peer |-> peer, hash |-> hash,
         ts |-> SeqMax([i \in 1..Len(ch) |-> it[ch[i]].timestamp]),
         targ |-> SeqMin([i \in 1..Len(ch) |-> it[ch[i]].target])]

\* ------------------------------------------------- SpecCheck and SpecThink
\* A tracker holding a trunk of shares and a few shares added on top of it;
\* think runs as a whole between additions.

TkNet == [CHAIN_LENGTH |-> 20, SHARE_PERIOD |-> 1, BLOCK_PERIOD |-> 2]

Blocks == {"B1", "B2"}

BaseShare ==
    [previous_hash |-> None, VERSION |-> 9, desired_version |-> 9,
     target |-> 16383, timestamp |-> 10000, time_seen |-> 1, peer |-> "peer1",
     header_previous_block |-> "B1", header_bits |-> "bits", header_hash |-> "H",
     block |-> FALSE, txs |-> "known", rederive |-> "ok"]

\* a trunk of L shares of one version; votes overrides desired_version and
\* target at some positions (1 is the oldest share)
TrunkItems(L, VERSION, target, votes) ==
    [h \in {TrunkHashes[i] : i \in 1..L} |->
        LET i == HashIndex(h)
        IN  [BaseShare EXCEPT
                !.previous_hash = IF i = 1 THEN None ELSE TrunkHashes[i - 1],
                !.VERSION = VERSION,
                !.desired_version = IF i \in DOMAIN votes
                                    THEN votes[i].desired_version ELSE VERSION,
                !.target = IF i \in DOMAIN votes THEN votes[i].target ELSE target]]

TrunkTip(it) ==
    IF TrunkHashes[1] \notin DOMAIN it THEN None
    ELSE TrunkHashes[CHOOSE i \in 1..Len(TrunkHashes) :
                         /\ TrunkHashes[i] \in DOMAIN it
                         /\ (i = Len(TrunkHashes) \/ TrunkHashes[i + 1] \notin DOMAIN it)]

VoteKinds == [desired_version : {7, 9}, target : {65535, 16383}]

\* shares offered to a tracker whose succession rules are exercised
CheckShares ==
    {[BaseShare EXCEPT !.VERSION = k[1], !.rederive = k[2], !.target = 65535] :
        k \in {<<7, "ok">>, <<8, "ok">>, <<9, "ok">>, <<9, "share_info">>,
               <<9, "assert">>}}

\* shares offered to a tracker whose head selection is exercised
ThinkShares ==
    {[BaseShare EXCEPT !.time_seen = t, !.peer = k.peer, !.block = k.block,
                       !.header_hash = k.header_hash, !.txs = k.txs,
                       !.rederive = k.rederive] :
        t \in {1, 2},
        k \in {[peer |-> "peer1", block |-> FALSE, header_hash |-> "H",
                txs |-> "known", rederive |-> "ok"],
               [peer |-> None, block |-> FALSE, header_hash |-> "H",
                txs |-> "known", rederive |-> "ok"],
               [peer |-> "peer1", block |-> TRUE, header_hash |-> "B2",
                txs |-> "known", rederive |-> "ok"],
               [peer |-> "peer1", block |-> TRUE, header_hash |-> "H",
                txs |-> "known", rederive |-> "ok"],
               [peer |-> None, block |-> FALSE, header_hash |-> "H",
                txs |-> "missing", rederive |-> "ok"],
               [peer |-> "peer1", block |-> FALSE, header_hash |-> "H",
                txs |-> "known", rederive |-> "gentx"]}}

\* shares whose parent the tracker does not have
OrphanShares ==
    {[BaseShare EXCEPT !.timestamp = ts, !.target = targ] :
        ts \in {6000, 10000}, targ \in {16383, 1023}}

TkReset == tk_pc' = "idle" /\ tk' = NoCall

CheckInit ==
    /\ call = NoCall /\ store = NoCall
    /\ net = TkNet
    /\ chain = <<>> /\ chain_last = None
    /\ GtIdle /\ SkIdle /\ WireIdle
    /\ \E L \in {TkNet.CHAIN_LENGTH - 1, TkNet.CHAIN_LENGTH, TkNet.CHAIN_LENGTH + 1},
          VERSION \in {7, 8, 9}, a \in VoteKinds,
          b \in {[desired_version |-> 9, target |-> 16383],
                 [desired_version |-> 7, target |-> 65535]} :
          items = TrunkItems(L, VERSION, 65535,
                             ((L - (TkNet.CHAIN_LENGTH * 9) \div 10 - 1) :> a)
                             @@ ((L - (TkNet.CHAIN_LENGTH * 9) \div 10) :> b))
    /\ verified = DOMAIN items
    /\ tk_pc = "idle" /\ tk = NoCall /\ av = NoCall /\ tk_out = NoCall

ThinkInit ==
    /\ call = NoCall /\ store = NoCall
    /\ net = TkNet
    /\ chain = <<>> /\ chain_last = None
    /\ GtIdle /\ SkIdle /\ WireIdle
    /\ \E L \in {0, 3, TkNet.CHAIN_LENGTH} : items = TrunkItems(L, 9, 16383, <<>>)
    /\ verified = IF TrunkHashes[TkNet.CHAIN_LENGTH] \in DOMAIN items
                  THEN DOMAIN items ELSE {}
    /\ tk_pc = "idle" /\ tk = NoCall /\ av = NoCall /\ tk_out = NoCall

\* tracker.add(share) of a share received or found since the last think
AddShare(share, previous_hash) ==
    LET used == DOMAIN items \cap SeqRange(ExtraHashes)
        h == ExtraHashes[CHOOSE i \in 1..Len(ExtraHashes) :
                             /\ ExtraHashes[i] \notin DOMAIN items
                             /\ \A j \in 1..(i - 1) : ExtraHashes[j] \in DOMAIN items]
    IN  /\ tk_pc = "idle"
        /\ used # SeqRange(ExtraHashes)
        /\ previous_hash \in {TrunkTip(items), "missing"} \cup used
        /\ items' = [g \in DOMAIN items \cup {h} |->
                        IF g = h THEN [share EXCEPT !.previous_hash = previous_hash]
                        ELSE items[g]]
        /\ UNCHANGED <<net, store, call, chain_vars, sk_vars, gt_vars, wire_vars, verified, tk_pc, tk,
                       av, tk_out>>

\* think(block_rel_height_func, previous_block, bits, known_txs) is entered
Think_Call(previous_block, now) ==
    /\ tk_pc = "idle"
    /\ tk' = [previous_block |-> previous_block, bits |-> "bits", now |-> now,
              block_rel_height_func |->
                  [b \in Blocks |-> IF b = previous_block THEN 0 ELSE -1],
              todo |-> heads(items) \ heads(SubsetTracker(items, verified)),
              head |-> None, head_height |-> 0, last |-> None, last_last |-> None,
              walk |-> <<>>, desired |-> {}, bads |-> {}]
    /\ tk_pc' = "heads"
    /\ UNCHANGED <<net, store, call, chain_vars, sk_vars, gt_vars, wire_vars, items, verified, av, tk_out>>

\* faulty variant: a complete chain is walked no further than an incomplete one
Think_Head_capped ==
    /\ tk_pc = "heads"
    /\ IF tk.todo = {}
       THEN tk_pc' = "bads" /\ tk' = tk
       ELSE \E head \in tk.todo :
               LET head_height == get_height(items, head)
                   last == get_last(items, head)
                   count == Min(5, Max(0, head_height - net.CHAIN_LENGTH))
               IN  /\ tk' = [tk EXCEPT !.todo = @ \ {head}, !.head = head,
                                       !.head_height = head_height, !.last = last,
                                       !.walk = get_chain(items, head, count)]
                   /\ tk_pc' = "walk1"
    /\ UNCHANGED <<net, store, call, chain_vars, sk_vars, gt_vars, wire_vars, items, verified, av, tk_out>>

\* first loop: the next unverified head and the shares to try below it
Think_Head ==
    /\ tk_pc = "heads"
    /\ IF tk.todo = {}
       THEN tk_pc' = "bads" /\ tk' = tk
       ELSE \E head \in tk.todo :
               LET head_height == get_height(items, head)
                   last == get_last(items, head)
                   count == IF last = None THEN head_height
                            ELSE Min(5, Max(0, head_height - net.CHAIN_LENGTH))
               IN  /\ tk' = [tk EXCEPT !.todo = @ \ {head}, !.head = head,
                                       !.head_height = head_height, !.last = last,
                                       !.walk = get_chain(items, head, count)]
                   /\ tk_pc' = "walk1"
    /\ UNCHANGED <<net, store, call, chain_vars, sk_vars, gt_vars, wire_vars, items, verified, av, tk_out>>

\* first loop body: attempt_verify on the next share of the walk, or the
\* loop's else clause when the walk ran out without a success
Think_Verify1 ==
    /\ tk_pc = "walk1"
    /\ IF tk.walk = <<>>
       THEN /\ tk_pc' = "heads"
            /\ IF tk.last = None
               THEN tk' = tk
               ELSE \E child \in reverse(items, tk.last) :
                       tk' = [tk EXCEPT !.desired = @ \cup
                                 {desired_entry(items, items[child].peer, tk.last,
                                                tk.head, tk.head_height)}]
            /\ UNCHANGED <<verified, av>>
       ELSE LET share == Head(tk.walk)
                r == attempt_verify(items, verified, net, share)
            IN  /\ av' = [hash |-> share, tracker |-> items, before |-> verified,
                          result |-> r]
                /\ verified' = r.verified
                /\ IF r.raised THEN tk_pc' = "raised" /\ tk' = tk
                   ELSE IF r.value THEN tk_pc' = "heads" /\ tk' = tk
                   ELSE /\ tk_pc' = "walk1"
                        /\ tk' = [tk EXCEPT !.walk = Tail(@),
                                            !.bads = IF share \in heads(items)
                                                     THEN @ \cup {share} ELSE @]
    /\ UNCHANGED <<net, store, call, chain_vars, sk_vars, gt_vars, wire_vars, items, tk_out>>

\* faulty variant: a bad head is removed together with the share it stands on
Think_Bads_with_parents ==
    /\ tk_pc = "bads"
    /\ IF \E bad \in tk.bads : bad \in verified \/ bad \notin heads(items)
       THEN tk_pc' = "raised" /\ UNCHANGED <<items, tk>>
       ELSE /\ items' = remove(items, tk.bads
                                      \cup {items[bad].previous_hash : bad \in tk.bads})
            /\ tk' = [tk EXCEPT !.todo = heads(SubsetTracker(items, verified))]
            /\ tk_pc' = "vheads"
    /\ UNCHANGED <<net, store, call, chain_vars, sk_vars, gt_vars, wire_vars, verified, av, tk_out>>

\* faulty variant: the bad heads are collected and then left in the tracker
Think_Bads_left_in ==
    /\ tk_pc = "bads"
    /\ IF \E bad \in tk.bads : bad \in verified \/ bad \notin heads(items)
       THEN tk_pc' = "raised" /\ UNCHANGED <<items, tk>>
       ELSE /\ items' = items
            /\ tk' = [tk EXCEPT !.todo = heads(SubsetTracker(items, verified))]
            /\ tk_pc' = "vheads"
    /\ UNCHANGED <<net, store, call, chain_vars, sk_vars, gt_vars, wire_vars, verified, av, tk_out>>

\* the bad heads are removed from the tracker
Think_Bads ==
    /\ tk_pc = "bads"
    /\ IF \E bad \in tk.bads : bad \in verified \/ bad \notin heads(items)
       THEN tk_pc' = "raised" /\ UNCHANGED <<items, tk>>
       ELSE /\ items' = remove(items, tk.bads)
            /\ tk' = [tk EXCEPT !.todo = heads(SubsetTracker(items, verified))]
            /\ tk_pc' = "vheads"
    /\ UNCHANGED <<net, store, call, chain_vars, sk_vars, gt_vars, wire_vars, verified, av, tk_out>>

\* second loop: the next verified head and the shares below its chain to try
Think_VHead ==
    /\ tk_pc = "vheads"
    /\ IF tk.todo = {}
       THEN tk_pc' = "rank" /\ tk' = tk
       ELSE \E head \in tk.todo :
               LET V == SubsetTracker(items, verified)
                   head_height == get_height(V, head)
                   last_hash == get_last(V, head)
                   last_height == get_height(items, last_hash)
                   last_last_hash == get_last(items, last_hash)
                   want == Max(net.CHAIN_LENGTH - head_height, 0)
                   can == IF last_last_hash # None
                          THEN Max(last_height - 1 - net.CHAIN_LENGTH, 0)
                          ELSE last_height
                   get == Min(want, can)
               IN  /\ tk' = [tk EXCEPT !.todo = @ \ {head}, !.head = head,
                                       !.head_height = head_height,
                                       !.last = last_hash, !.last_last = last_last_hash,
                                       !.walk = get_chain(items, last_hash, get)]
                   /\ tk_pc' = "walk2"
    /\ UNCHANGED <<net, store, call, chain_vars, sk_vars, gt_vars, wire_vars, items, verified, av, tk_out>>

\* second loop body: attempt_verify down the chain until one fails, then the
\* request for the parent the chain still lacks
Think_Verify2 ==
    /\ tk_pc = "walk2"
    /\ IF tk.walk = <<>>
       THEN /\ tk_pc' = "vheads"
            /\ IF tk.head_height < net.CHAIN_LENGTH /\ tk.last_last # None
               THEN \E child \in reverse(SubsetTracker(items, verified), tk.last) :
                       tk' = [tk EXCEPT !.desired = @ \cup
                                 {desired_entry(items, items[child].peer, tk.last_last,
                                                tk.head, tk.head_height)}]
               ELSE tk' = tk
            /\ UNCHANGED <<verified, av>>
       ELSE LET share == Head(tk.walk)
                r == attempt_verify(items, verified, net, share)
            IN  /\ av' = [hash |-> share, tracker |-> items, before |-> verified,
                          result |-> r]
                /\ verified' = r.verified
                /\ IF r.raised THEN tk_pc' = "raised" /\ tk' = tk
                   ELSE /\ tk_pc' = "walk2"
                        /\ tk' = [tk EXCEPT !.walk = IF r.value THEN Tail(@) ELSE <<>>]
    /\ UNCHANGED <<net, store, call, chain_vars, sk_vars, gt_vars, wire_vars, items, tk_out>>

\* best tail, best head, cutoffs; think returns
Think_Rank ==
    /\ tk_pc = "rank"
    /\ \E pick \in PickFns(items, verified) :
          tk_out' = think_return(items, verified, net, tk.previous_block, tk.bits,
                                 tk.now, tk.block_rel_height_func, tk.desired, pick)
    /\ tk_pc' = "done"
    /\ UNCHANGED <<net, store, call, chain_vars, sk_vars, gt_vars, wire_vars, items, verified, tk, av>>

\* the caller has the result (or the exception)
Think_Return ==
    /\ tk_pc \in {"done", "raised"}
    /\ TkReset
    /\ av' = NoCall /\ tk_out' = NoCall
    /\ UNCHANGED <<net, store, call, chain_vars, sk_vars, gt_vars, wire_vars, items, verified>>

TrackerNext(shares, orphans, blocks, nows) ==
    \/ /\ tk_pc = "idle"
       /\ \E share \in shares, previous_hash \in {None} \cup (DOMAIN items) :
             AddShare(share, previous_hash)
    \/ /\ tk_pc = "idle"
       /\ \E share \in orphans : AddShare(share, "missing")
    \/ \E previous_block \in blocks, now \in nows : Think_Call(previous_block, now)
    \/ Think_Head
    \/ Think_Verify1
    \/ Think_Bads
    \/ Think_VHead
    \/ Think_Verify2
    \/ Think_Rank
    \/ Think_Return

CheckNext == TrackerNext(CheckShares, {BaseShare}, {"B1"}, {10000})
SpecCheck == CheckInit /\ [][CheckNext]_vars

ThinkNext == TrackerNext(ThinkShares, OrphanShares, Blocks, {10000, 100000})
SpecThink == ThinkInit /\ [][ThinkNext]_vars

\* ---- properties of check, attempt_verify and think

\* attempt_verify ran check on a share whose previous share is in the tracker
AvChecked == av # NoCall /\ av.result.check # NoCall
AvSelf == av.tracker[av.hash]
AvHasPrevious == AvChecked /\ AvSelf.previous_hash \in DOMAIN av.tracker
AvPrevious == av.tracker[AvSelf.previous_hash]

\* the succession table: same version, or V7 -> V9, or V8 -> V9
FollowsAllowed(previous_version, version) ==
    \/ previous_version = version
    \/ previous_version \in {7, 8} /\ version = 9

\* C5: check of a share with a previous share succeeds only if the previous
\* share has the same version or a version whose SUCCESSOR is the share's
\* (V7 -> V9, V8 -> V9, V9 -> none); every other combination raises
\* PeerMisbehaving; so along verified shares the version never goes from V9
\* back to V7/V8 and never changes between V7 and V8.
C5_Succession ==
    /\ AvHasPrevious =>
          /\ av.result.check.status = "ok" =>
                 FollowsAllowed(AvPrevious.VERSION, AvSelf.VERSION)
          /\ ~FollowsAllowed(AvPrevious.VERSION, AvSelf.VERSION) =>
                 /\ av.result.check.status = "PeerMisbehavingError"
                 /\ av.result.check.msg = "can't follow"
                 /\ ~av.result.value
    /\ \A h \in verified :
          items[h].previous_hash \in verified =>
              FollowsAllowed(items[items[h].previous_hash].VERSION, items[h].VERSION)

\* a V9 share verified on top of a V7 share, and a V7 share on top of that
\* V9 share just rejected
C5_Witness ==
    /\ AvHasPrevious
    /\ AvSelf.VERSION = 7 /\ AvPrevious.VERSION = 9
    /\ av.result.check.status = "PeerMisbehavingError"
    /\ AvSelf.previous_hash \in verified
    /\ AvPrevious.previous_hash \in verified
    /\ items[AvPrevious.previous_hash].VERSION = 7

\* the window of the version switch gate and its work-weighted votes
GateWindow ==
    get_chain(av.tracker,
              get_nth_parent_hash(av.tracker, AvSelf.previous_hash,
                                  (net.CHAIN_LENGTH * 9) \div 10),
              net.CHAIN_LENGTH \div 10)
GateTotal ==
    SeqSum([i \in 1..Len(GateWindow) |->
               target_to_average_attempts(av.tracker[GateWindow[i]].target)])
GateVotes ==
    SeqSum([i \in 1..Len(GateWindow) |->
               IF av.tracker[GateWindow[i]].desired_version = AvSelf.VERSION
               THEN target_to_average_attempts(av.tracker[GateWindow[i]].target)
               ELSE 0])
GateHeight == get_height(av.tracker, AvSelf.previous_hash)

\* C6: when a share's version is the SUCCESSOR of its previous share's, check
\* succeeds only if the chain below the previous share has depth >=
\* CHAIN_LENGTH and at least 85% of the work-weighted desired_version votes of
\* the CHAIN_LENGTH/10 shares starting CHAIN_LENGTH*9/10 back from the
\* previous share are for the share's version; with less than 85% check
\* raises 'switch without enough hash power upgraded', with too short a chain
\* 'switch without enough history'.
C6_SwitchGate ==
    (AvHasPrevious /\ AvSelf.VERSION = 9 /\ AvPrevious.VERSION \in {7, 8}) =>
        /\ GateHeight < net.CHAIN_LENGTH =>
              /\ av.result.check.status = "PeerMisbehavingError"
              /\ av.result.check.msg = "switch without enough history"
        /\ (GateHeight >= net.CHAIN_LENGTH /\ GateVotes * 100 < GateTotal * 85) =>
              /\ av.result.check.status = "PeerMisbehavingError"
              /\ av.result.check.msg = "switch without enough hash power upgraded"
        /\ av.result.check.status = "ok" =>
              /\ GateHeight >= net.CHAIN_LENGTH
              /\ GateVotes * 100 >= GateTotal * 85

\* the heads think ranks against the top-ranked one, and the key parts
ThinkDone == tk_pc = "done"
Ver == SubsetTracker(items, verified)
RankWork(h) == get_work(Ver, get_nth_parent_hash(Ver, h, Min(5, get_height(Ver, h))))
PunishLevel(h) == should_punish_reason(items[h], tk.previous_block, tk.bits)
Rivals == tail_heads(Ver, get_last(Ver, tk_out.top))

\* C7: think takes the greatest verified head of the best tail under (work at
\* the ancestor 5 back, lower punish level first, earlier time_seen first):
\* at equal work a punished head never outranks an unpunished one whatever
\* the time_seen values, a block solution outranks a level-0 head, and at
\* equal work and level the earlier-seen head is chosen.
C7_HeadRanking ==
    (ThinkDone /\ tk_out.top # None) =>
        /\ tk_out.top \in Rivals
        /\ \A g \in Rivals :
              /\ RankWork(g) <= RankWork(tk_out.top)
              /\ RankWork(g) = RankWork(tk_out.top) =>
                    /\ ~(PunishLevel(tk_out.top) > 0 /\ PunishLevel(g) <= 0)
                    /\ ~(PunishLevel(tk_out.top) = 0 /\ PunishLevel(g) = -1)
                    /\ PunishLevel(g) = PunishLevel(tk_out.top) =>
                           items[tk_out.top].time_seen <= items[g].time_seen

\* two heads of equal work: the later-seen unpunished one is taken over the
\* earlier-seen punished one
C7_Witness ==
    /\ ThinkDone /\ tk_out.top # None
    /\ PunishLevel(tk_out.top) <= 0
    /\ \E g \in Rivals :
          /\ RankWork(g) = RankWork(tk_out.top)
          /\ PunishLevel(g) > 0
          /\ items[g].time_seen < items[tk_out.top].time_seen

\* C8: if the top-ranked head has punish level > 0 the returned best is that
\* head's previous_share_hash; with level 0 or -1 it is the head itself; with
\* no verified head the returned best is absent.
C8_PunishBackOff ==
    ThinkDone =>
        /\ (tk_out.top # None /\ PunishLevel(tk_out.top) > 0) =>
               tk_out.best = items[tk_out.top].previous_hash
        /\ (tk_out.top # None /\ PunishLevel(tk_out.top) <= 0) =>
               tk_out.best = tk_out.top
        /\ verified = {} => tk_out.best = None
        /\ tk_out.top = None <=> verified = {}

\* a punished top head gave way to its parent
C8_Witness ==
    /\ ThinkDone /\ tk_out.top # None
    /\ PunishLevel(tk_out.top) > 0
    /\ tk_out.best = items[tk_out.top].previous_hash
    /\ tk_out.best # tk_out.top
    /\ tk_out.best # None

\* C9: attempt_verify never lets a verification failure escape: when check
\* raises (PeerMisbehaving, value error, failed assertion) it returns False
\* and verified is unchanged; when check succeeds the share is added to
\* verified and it returns True; for an already verified share it returns True
\* without running check.
C9_AttemptVerify ==
    /\ tk_pc # "raised"
    /\ av # NoCall =>
          /\ ~av.result.raised
          /\ av.hash \in av.before =>
                /\ av.result.value
                /\ av.result.check = NoCall
                /\ verified = av.before
          /\ (av.hash \notin av.before
              /\ check(av.tracker, net, av.hash).status # "ok") =>
                /\ ~av.result.value
                /\ verified = av.before
          /\ (av.hash \notin av.before
              /\ check(av.tracker, net, av.hash).status = "ok") =>
                /\ av.result.value
                /\ verified = av.before \cup {av.hash}

\* a failed assertion inside check was swallowed
C9_Witness ==
    /\ AvChecked
    /\ av.result.check.status = "AssertionError"
    /\ ~av.result.value
    /\ verified = av.before
    /\ tk_pc = "walk1"

\* C10: the request list returned by think holds exactly the desired entries
\* with ts >= timestamp_cutoff and target <= target_cutoff; an entry whose
\* target is above target_cutoff is never returned.
C10_RequestFilter ==
    ThinkDone =>
        tk_out.want =
            {<<d.peer, d.hash>> :
                d \in {e \in tk.desired : /\ e.ts >= tk_out.timestamp_cutoff
                                         /\ e.targ <= tk_out.target_cutoff}}

\* ------------------------------------------------------------------ SpecWire
\* Envelopes arriving from peers and shares sealed locally.

MaxType == 10

EnvelopeTypes == 0..MaxType
RefLists == {<<>>,
             <<[share_count |-> 0, tx_count |-> 0]>>,
             <<[share_count |-> 110, tx_count |-> 0]>>}
WireContents ==
    [coinbase_len : {1, 2, 101},
     merkle_link  : {[branch_len |-> b, over |-> <<>>] : b \in {0, 17}},
     extra_len    : {0},
     refs         : RefLists,
     new_hashes   : {<<>>, <<"t1">>},
     target       : {1, 2, 3},
     block_target : {0, 1},
     pow_hash     : {1, 2, 3},
     other_txs    : {<<>>, <<"tx1">>}]
Peers == {"peer1"}

\* MAX_TARGET of the net; DEBUG is p2pool.DEBUG
WireNets == {[MAX_TARGET |-> 2, DEBUG |-> d] : d \in BOOLEAN}

WireInit ==
    /\ call = NoCall /\ store = NoCall
    /\ net \in WireNets
    /\ chain = <<>> /\ chain_last = None
    /\ GtIdle /\ SkIdle /\ WireIdle /\ TkIdle

\* a peer's envelope goes through load_share
LoadShare(share, peer) ==
    /\ wire_in = NoCall
    /\ wire_in' = [via |-> "load_share", type |-> share.type, peer |-> peer,
                   contents |-> share.contents, VERSION |-> None]
    /\ wire_out' = load_share(share, net, peer)
    /\ UNCHANGED <<net, store, call, chain_vars, sk_vars, gt_vars, tk_vars>>

\* the closure returned by generate_transaction seals a share
GetShare(VERSION, c, transactions, txs_match) ==
    /\ wire_in = NoCall
    /\ wire_in' = [via |-> "get_share", type |-> None, peer |-> None,
                   contents |-> c, VERSION |-> VERSION]
    /\ wire_out' = IF VERSION = 7 /\ ~txs_match
                   THEN Raise("AssertionError", "transactions")
                   ELSE get_share(VERSION, net, c, transactions)
    /\ UNCHANGED <<net, store, call, chain_vars, sk_vars, gt_vars, tk_vars>>

\* a constructed share is sent on: as_share, then load_share at the receiver
RoundTrip ==
    /\ wire_in # NoCall
    /\ wire_in.via \in {"load_share", "get_share"}
    /\ wire_out.status = "ok"
    /\ LET envelope == as_share(wire_out.share)
       IN  /\ wire_in' = [via |-> "round_trip",
                          type |-> IF envelope.status = "ok" THEN envelope.share.type
                                   ELSE -1,
                          peer |-> wire_out.share.peer,
                          contents |-> wire_out.share.contents, VERSION |-> None,
                          original |-> wire_out.share, envelope |-> envelope]
           /\ wire_out' = IF envelope.status = "ok"
                          THEN load_share(envelope.share, net, wire_out.share.peer)
                          ELSE envelope
    /\ UNCHANGED <<net, store, call, chain_vars, sk_vars, gt_vars, tk_vars>>

\* the caller has taken the share or the exception
WireReturn ==
    /\ wire_in # NoCall
    /\ wire_in' = NoCall /\ wire_out' = NoCall
    /\ UNCHANGED <<net, store, call, chain_vars, sk_vars, gt_vars, tk_vars>>

WireNext ==
    \/ /\ wire_in = NoCall
       /\ \E type \in EnvelopeTypes, c \in WireContents, peer \in Peers :
             LoadShare([type |-> type, contents |-> c], peer)
    \/ /\ wire_in = NoCall
       /\ \E VERSION \in {7, 8, 9}, c \in WireContents, txs_match \in BOOLEAN :
             GetShare(VERSION, c, c.other_txs, txs_match)
    \/ RoundTrip
    \/ WireReturn

SpecWire == WireInit /\ [][WireNext]_vars

\* the version of the class whose constructor the call reaches, 0 if none
WireClass ==
    IF wire_in.via = "get_share" THEN wire_in.VERSION
    ELSE IF wire_in.type \in {4, 5} THEN 7
    ELSE IF wire_in.type \in {8, 9} THEN wire_in.type
    ELSE 0

\* the constructor got as far as computing the header and its hashes
WireHeaderComputed ==
    /\ wire_in # NoCall
    /\ WireClass # 0
    /\ wire_out.msg \notin {"bad coinbase size", "coinbase too large",
                            "merkle branch too long", "extra_data", "share_count",
                            "new_transaction_hashes", "transactions",
                            "merkle_link and other_txs do not match"}

\* C3: no share object has pow_hash > target: a construction that computes a
\* pow_hash above the target raises PeerMisbehavingError 'share PoW invalid',
\* and for V8/V9 a target above MAX_TARGET raises 'share target invalid'
\* before the PoW test.
C3_PowAtMostTarget ==
    /\ (wire_in # NoCall /\ wire_out.status = "ok") =>
           wire_out.share.pow_hash <= wire_out.share.target
    /\ (WireHeaderComputed /\ WireClass \in {8, 9}
        /\ wire_in.contents.target > net.MAX_TARGET) =>
           /\ wire_out.status = "PeerMisbehavingError"
           /\ wire_out.msg = "share target invalid"
    /\ (WireHeaderComputed /\ wire_in.contents.pow_hash > wire_in.contents.target
        /\ ~(WireClass \in {8, 9} /\ wire_in.contents.target > net.MAX_TARGET)) =>
           /\ wire_out.status = "PeerMisbehavingError"
           /\ wire_out.msg = "share PoW invalid"

\* a V9 envelope from a peer, target within MAX_TARGET, PoW above the target
C3_Witness ==
    /\ wire_in # NoCall
    /\ wire_in.via = "load_share" /\ wire_in.type = 9
    /\ wire_in.contents.target <= net.MAX_TARGET
    /\ wire_in.contents.pow_hash > wire_in.contents.target
    /\ wire_out.status = "PeerMisbehavingError" /\ wire_out.msg = "share PoW invalid"

\* C4: load_share dispatches on the envelope type alone: 0..3 obsolete
\* (PeerMisbehavingError), 4 a V7 share without other transactions, 5 a V7
\* share with them and a merkle link recomputed from them, 8 a V8 share, 9 a
\* V9 share, anything else (6 and 7 too) rejected as unknown, no share built.
C4_Dispatch ==
    (wire_in # NoCall /\ wire_in.via = "load_share") =>
        LET t == wire_in.type
            ok == wire_out.status = "ok"
            dispatch_msgs == {"sent an obsolete share", "unknown share type"}
        IN  /\ t \in {0, 1, 2, 3} =>
                  /\ wire_out.status = "PeerMisbehavingError"
                  /\ wire_out.msg = "sent an obsolete share"
            /\ t \in {4, 5, 8, 9} => wire_out.msg \notin dispatch_msgs
            /\ (t = 4 /\ ok) =>
                  /\ wire_out.share.VERSION = 7
                  /\ wire_out.share.other_txs = None
                  /\ wire_out.share.merkle_link = wire_in.contents.merkle_link
            /\ (t = 5 /\ ok) =>
                  /\ wire_out.share.VERSION = 7
                  /\ wire_out.share.other_txs = wire_in.contents.other_txs
                  /\ wire_out.share.merkle_link.over = wire_in.contents.other_txs
                  /\ wire_out.share.merkle_link.branch_len =
                         CeilLog2(Len(wire_in.contents.other_txs) + 1)
            /\ (t = 8 /\ ok) => wire_out.share.VERSION = 8
            /\ (t = 9 /\ ok) => wire_out.share.VERSION = 9
            /\ t \notin {0, 1, 2, 3, 4, 5, 8, 9} =>
                  /\ ~ok
                  /\ wire_out.share = None
                  /\ wire_out.msg = "unknown share type"

\* a share1b with a transaction became a V7 share carrying it
C4_Witness ==
    /\ wire_in # NoCall
    /\ wire_in.via = "load_share" /\ wire_in.type = 5
    /\ wire_out.status = "ok"
    /\ wire_out.share.VERSION = 7
    /\ wire_out.share.other_txs = <<"tx1">>

\* the header a share derives: the fields shared by every envelope of the
\* share and the merkle link the merkle root is computed through
DerivedHeader(share) ==
    [common |-> share_common(share.contents), merkle_link |-> share.merkle_link]

WireRoundTrip == wire_in # NoCall /\ wire_in.via = "round_trip"

\* C11: load_share(s.as_share()) yields a share of the same version with the
\* same contents, hash and derived header; a V7 share is emitted as type 5
\* exactly when it is a block solution and as type 4 otherwise, and a V7 share
\* has other_txs exactly when it is a block solution, so as_share never packs
\* a missing transaction list.
C11_RoundTrip ==
    /\ WireRoundTrip =>
          /\ wire_in.envelope.status = "ok"
          /\ wire_out.status = "ok"
          /\ wire_out.share.VERSION = wire_in.original.VERSION
          /\ DerivedHeader(wire_out.share) = DerivedHeader(wire_in.original)
          /\ wire_out.share.pow_hash = wire_in.original.pow_hash
          /\ wire_out.share.target = wire_in.original.target
          /\ wire_out.share.other_txs = wire_in.original.other_txs
          /\ wire_in.original.VERSION \in {8, 9} =>
                 wire_out.share.contents = wire_in.original.contents
          /\ wire_in.original.VERSION = 7 =>
                 (wire_in.type = 5 <=>
                     wire_in.original.pow_hash <= wire_in.original.block_target)
          /\ wire_in.original.VERSION = 7 => wire_in.type \in {4, 5}
          /\ wire_in.original.VERSION \in {8, 9} =>
                 wire_in.type = wire_in.original.VERSION
    /\ (wire_in # NoCall /\ wire_out.status = "ok" /\ wire_out.share.VERSION = 7) =>
          (wire_out.share.other_txs # None <=>
              wire_out.share.pow_hash <= wire_out.share.block_target)

\* a V7 block solution with a transaction went out as a share1b and came back
C11_Witness ==
    /\ WireRoundTrip
    /\ wire_in.original.VERSION = 7
    /\ wire_in.type = 5
    /\ wire_in.original.other_txs = <<"tx1">>
    /\ wire_out.status = "ok"
    /\ wire_out.share.other_txs = <<"tx1">>

\* ------------------------------------------------------------------ hash link
\* Byte strings are sequences; sha256 (p2pool/bitcoin/sha256.py) is the
\* incremental hash object: state covers the whole 64 byte blocks absorbed so
\* far, buf holds the bytes after them, length counts bits.  The state is
\* modelled by the bytes it has absorbed and a digest by the message and
\* length it commits to.

\* 512//8, the SHA-256 block size in bytes
SHA_BLOCK == 64

\* q[a:] and q[:m] of Python
PySliceFrom(q, a) ==
    LET start == IF a < 0 THEN Max(Len(q) + a, 0) ELSE Min(a, Len(q))
    IN  SubSeq(q, start + 1, Len(q))
PySliceTo(q, m) ==
    LET stop == IF m < 0 THEN Max(Len(q) + m, 0) ELSE Min(m, Len(q))
    IN  SubSeq(q, 1, stop)

endswith(q, e) ==
    Len(e) <= Len(q) /\ SubSeq(q, Len(q) - Len(e) + 1, Len(q)) = e

\* sha256.sha256(data, (state, buf, length)) after its update(data)
sha256(data, state, buf, length) ==
    LET all == buf \o data
        whole == Len(all) - (Len(all) % SHA_BLOCK)
    IN  [state |-> state \o SubSeq(all, 1, whole),
         buf |-> SubSeq(all, whole + 1, Len(all)),
         length |-> length + 8 * Len(data)]

\* .digest(): the padding commits to buf and to length
sha256_digest(x) == [message |-> x.state \o x.buf, bits |-> x.length]

\* bitcoin_data.hash256: SHA-256 applied twice
hash256(data) == [sha256d |-> sha256_digest(sha256(data, <<>>, <<>>, 0))]

prefix_to_hash_link(prefix, const_ending) ==
    IF ~endswith(prefix, const_ending)
    THEN Raise("AssertionError", "prefix.endswith(const_ending)")
    ELSE LET x == sha256(prefix, <<>>, <<>>, 0)
         IN  [status |-> "ok", msg |-> "",
              state |-> x.state,
              extra_data |-> PySliceTo(x.buf, Max(0, Len(x.buf) - Len(const_ending))),
              length |-> x.length \div 8]

\* faulty variant: the tail is taken whole, without the slice
check_hash_link_unsliced(hash_link, data, const_ending) ==
    LET extra_length == hash_link.length % SHA_BLOCK
    IN  IF Len(hash_link.extra_data) # Max(0, extra_length - Len(const_ending))
        THEN Raise("AssertionError", "len(extra_data)")
        ELSE LET extra == hash_link.extra_data \o const_ending
             IN  IF Len(extra) # extra_length
                 THEN Raise("AssertionError", "len(extra)")
                 ELSE [status |-> "ok", msg |-> "", extra |-> extra,
                       value |-> [sha256d |->
                           sha256_digest(sha256(data, hash_link.state, extra,
                                                8 * hash_link.length))]]

check_hash_link(hash_link, data, const_ending) ==
    LET extra_length == hash_link.length % SHA_BLOCK
    IN  IF Len(hash_link.extra_data) # Max(0, extra_length - Len(const_ending))
        THEN Raise("AssertionError", "len(extra_data)")
        ELSE LET extra == PySliceFrom(hash_link.extra_data \o const_ending,
                                      Len(hash_link.extra_data) + Len(const_ending)
                                      - extra_length)
             IN  IF Len(extra) # extra_length
                 THEN Raise("AssertionError", "len(extra)")
                 ELSE [status |-> "ok", msg |-> "", extra |-> extra,
                       value |-> [sha256d |->
                           sha256_digest(sha256(data, hash_link.state, extra,
                                                8 * hash_link.length))]]

\* ------------------------------------------------------------------ SpecHashLink
MaxPrefixLen == 130
MaxEndingLen == 66
MaxDataLen == 2

\* byte i of the prefix is i: every position is told apart
PrefixBytes(len) == [i \in 1..len |-> i]
DataBytes(len) == [i \in 1..len |-> 1000 + i]
EndingBytes(prefix, len, matching) ==
    IF matching THEN SubSeq(prefix, Len(prefix) - len + 1, Len(prefix))
    ELSE [i \in 1..len |-> 0]

IdleInit ==
    /\ net = [IDLE |-> TRUE]
    /\ chain = <<>> /\ chain_last = None
    /\ GtIdle /\ SkIdle /\ WireIdle /\ TkIdle
    /\ call = NoCall /\ store = NoCall

HashLinkInit == IdleInit

\* a hash link is made of a prefix and then checked against data
HashLink(prefix, const_ending, data) ==
    /\ call = NoCall
    /\ LET link == prefix_to_hash_link(prefix, const_ending)
       IN  call' = [fn |-> "hash_link", prefix |-> prefix,
                    const_ending |-> const_ending, data |-> data, link |-> link,
                    result |-> IF link.status = "ok"
                               THEN check_hash_link(link, data, const_ending)
                               ELSE link]
    /\ UNCHANGED <<net, store, chain_vars, sk_vars, gt_vars, wire_vars, tk_vars>>

\* the caller has the result
CallReturn ==
    /\ call # NoCall
    /\ call' = NoCall
    /\ UNCHANGED <<net, store, chain_vars, sk_vars, gt_vars, wire_vars, tk_vars>>

HashLinkNext ==
    \/ /\ call = NoCall
       /\ \E plen \in 0..MaxPrefixLen, elen \in 0..MaxEndingLen,
             dlen \in 0..MaxDataLen, matching \in BOOLEAN :
             /\ matching => elen <= plen
             /\ ~matching => elen >= 1
             /\ HashLink(PrefixBytes(plen),
                         EndingBytes(PrefixBytes(plen), elen, matching),
                         DataBytes(dlen))
    \/ CallReturn

SpecHashLink == HashLinkInit /\ [][HashLinkNext]_vars

HashLinkCall == call # NoCall /\ call.fn = "hash_link"
Buffered(prefix) ==
    SubSeq(prefix, Len(prefix) - (Len(prefix) % SHA_BLOCK) + 1, Len(prefix))

\* C12: for every prefix that ends with const_ending and every data,
\* check_hash_link(prefix_to_hash_link(prefix, const_ending), data,
\* const_ending) is the double SHA-256 of prefix followed by data; the tail
\* rebuilt from extra_data and const_ending is what was buffered when the
\* prefix was hashed, and neither length assertion fails.
C12_HashLinkRoundTrip ==
    (HashLinkCall /\ endswith(call.prefix, call.const_ending)) =>
        /\ call.link.status = "ok"
        /\ call.result.status = "ok"
        /\ call.result.extra = Buffered(call.prefix)
        /\ call.result.value = hash256(call.prefix \o call.data)

\* a prefix longer than a block whose buffered bytes lie inside const_ending
C12_Witness ==
    /\ HashLinkCall
    /\ endswith(call.prefix, call.const_ending)
    /\ Len(call.prefix) > SHA_BLOCK
    /\ Len(Buffered(call.prefix)) > 0
    /\ Len(Buffered(call.prefix)) < Len(call.const_ending)
    /\ call.link.extra_data = <<>>
    /\ call.result.status = "ok"
    /\ Len(call.data) > 0

\* the other case: more bytes buffered than const_ending is long
C12_WitnessLongBuffer ==
    /\ HashLinkCall
    /\ endswith(call.prefix, call.const_ending)
    /\ Len(Buffered(call.prefix)) > Len(call.const_ending)
    /\ Len(call.const_ending) > 0
    /\ call.link.extra_data # <<>>
    /\ call.result.status = "ok"

\* ------------------------------------------------------------------ should_punish_reason
\* The tracker is seen through the new_transaction_hashes of the share and of
\* its ancestors: tracker.news[d + 1] belongs to the d-th parent, so that
\* get_height(self.hash) is Len(tracker.news).  known_txs maps a hash to its
\* transaction; a transaction is modelled by bitcoin_data.tx_type.packed_size
\* of it.

\* a result that may be None: None is Nothing, a list v is Some(v)
Nothing == [status |-> None]
Some(v) == [status |-> "ok", value |-> v]

NewShare_get_other_tx_hashes(self, tracker) ==
    LET parents == Len(tracker.news) - 1
        refs == self.transaction_hash_refs
    IN  IF ~(\A i \in 1..Len(refs) : refs[i].share_count <= parents)
        THEN Nothing
        ELSE Some([i \in 1..Len(refs) |->
                 tracker.news[refs[i].share_count + 1][refs[i].tx_count + 1]])

NewShare_get_other_txs(self, tracker, known_txs) ==
    LET other_tx_hashes == NewShare_get_other_tx_hashes(self, tracker)
    IN  IF other_tx_hashes = Nothing THEN Nothing
        ELSE IF ~(\A i \in 1..Len(other_tx_hashes.value) :
                     other_tx_hashes.value[i] \in DOMAIN known_txs)
        THEN Nothing
        ELSE Some([i \in 1..Len(other_tx_hashes.value) |->
                      known_txs[other_tx_hashes.value[i]]])

IsStale(self, previous_block, bits) ==
    /\ <<self.header_previous_block, self.header_bits>> # <<previous_block, bits>>
    /\ self.header_hash # previous_block
    /\ self.peer # None

\* faulty variant: the transactions are looked at before the block solution
NewShare_should_punish_reason_txs_first(self, previous_block, bits, tracker, known_txs) ==
    IF IsStale(self, previous_block, bits)
    THEN [level |-> 1, reason |-> "Block-stale detected!"]
    ELSE LET other_txs == NewShare_get_other_txs(self, tracker, known_txs)
         IN  IF other_txs = Nothing
             THEN [level |-> 1, reason |-> "not all txs present"]
             ELSE IF self.pow_hash <= self.header_bits_target
             THEN [level |-> -1, reason |-> "block solution"]
             ELSE [level |-> 0, reason |-> None]

\* True is 1 and False is 0, as Python compares them
NewShare_should_punish_reason(self, previous_block, bits, tracker, known_txs) ==
    IF IsStale(self, previous_block, bits)
    THEN [level |-> 1, reason |-> "Block-stale detected!"]
    ELSE IF self.pow_hash <= self.header_bits_target
    THEN [level |-> -1, reason |-> "block solution"]
    ELSE LET other_txs == NewShare_get_other_txs(self, tracker, known_txs)
         IN  IF other_txs = Nothing
             THEN [level |-> 1, reason |-> "not all txs present"]
             ELSE IF SeqSum(other_txs.value) > 1000000
             THEN [level |-> 1, reason |-> "txs over block size limit"]
             ELSE IF SeqSum([i \in 1..Len(self.new_transaction_hashes) |->
                                known_txs[self.new_transaction_hashes[i]]]) > 50000
             THEN [level |-> 1, reason |-> "new txs over limit"]
             ELSE [level |-> 0, reason |-> None]

\* ------------------------------------------------------------------ SpecPunish
\* transactions of the model and their packed sizes: ta and tb together are
\* exactly at the block size limit, tc alone exactly at the new txs limit
TxSizes == [ta |-> 600000, tb |-> 400000, tc |-> 50000, td |-> 100]
TxHashes == DOMAIN TxSizes
OwnNews == {<<>>, <<"tc">>, <<"td">>, <<"tc", "td">>}
ParentNews == {<<>>, <<"ta">>, <<"ta", "tb">>}
PunishBlocks == {"B1", "B2"}
PunishBits == {"bits1", "bits2"}
MaxParentRefs == 2

\* the references of a share that passed check: every hash of its own
\* new_transaction_hashes as (0, index), after those into its parent
RefsOf(parent_refs, own) ==
    [i \in 1..Len(parent_refs) |-> [share_count |-> 1, tx_count |-> parent_refs[i] - 1]]
    \o [i \in 1..Len(own) |-> [share_count |-> 0, tx_count |-> i - 1]]

ParentRefs == {<<>>} \cup {<<i>> : i \in 1..MaxParentRefs}
                     \cup {<<i, j>> : i \in 1..MaxParentRefs, j \in 1..MaxParentRefs}

PunishInit == IdleInit

ShouldPunish(self, previous_block, bits, tracker, known_txs) ==
    /\ call = NoCall
    /\ call' = [fn |-> "should_punish_reason", self |-> self,
                previous_block |-> previous_block, bits |-> bits,
                tracker |-> tracker, known_txs |-> known_txs,
                result |-> NewShare_should_punish_reason(self, previous_block, bits,
                                                         tracker, known_txs)]
    /\ UNCHANGED <<net, store, chain_vars, sk_vars, gt_vars, wire_vars, tk_vars>>

PunishNext ==
    \/ /\ call = NoCall
       /\ \E known \in SUBSET TxHashes, own \in OwnNews,
             has_parent \in BOOLEAN, pnews \in ParentNews, prefs \in ParentRefs,
             hb \in PunishBlocks, hbits \in PunishBits,
             hh \in {"B1", "H"}, peer \in {None, "peer1"}, VERSION \in {8, 9},
             pow_hash \in {3, 4} :
             /\ has_parent => \A i \in 1..Len(prefs) : prefs[i] <= Len(pnews)
             /\ ~has_parent => pnews = <<>>
             /\ ShouldPunish(
                  [VERSION |-> VERSION, peer |-> peer, header_hash |-> hh,
                   header_previous_block |-> hb, header_bits |-> hbits,
                   header_bits_target |-> 3, pow_hash |-> pow_hash,
                   new_transaction_hashes |-> own,
                   transaction_hash_refs |-> RefsOf(prefs, own)],
                  "B1", "bits1",
                  [news |-> IF has_parent THEN <<own, pnews>> ELSE <<own>>],
                  [h \in known |-> TxSizes[h]])
    \/ CallReturn

SpecPunish == PunishInit /\ [][PunishNext]_vars

PunishCall == call # NoCall /\ call.fn = "should_punish_reason"

\* the five rules of C13, read off the arguments of the call
RuleStale ==
    /\ (call.self.header_previous_block # call.previous_block
        \/ call.self.header_bits # call.bits)
    /\ call.self.header_hash # call.previous_block
    /\ call.self.peer # None
RuleBlock == call.self.pow_hash <= call.self.header_bits_target
RefHashes ==
    LET refs == call.self.transaction_hash_refs
    IN  IF \E i \in 1..Len(refs) : refs[i].share_count + 1 > Len(call.tracker.news)
        THEN <<"unresolved">>
        ELSE [i \in 1..Len(refs) |->
                 call.tracker.news[refs[i].share_count + 1][refs[i].tx_count + 1]]
RuleMissing ==
    \E i \in 1..Len(RefHashes) : RefHashes[i] \notin DOMAIN call.known_txs
RECURSIVE SizeOf(_)
SizeOf(hashes) ==
    IF hashes = <<>> THEN 0
    ELSE (IF hashes[1] \in TxHashes THEN TxSizes[hashes[1]] ELSE 0) + SizeOf(Tail(hashes))
RuleAllOver == SizeOf(RefHashes) > 1000000
RuleNewOver == SizeOf(call.self.new_transaction_hashes) > 50000

\* C13: should_punish_reason of a V8/V9 share returns at the first rule that
\* applies, in the order block-stale, block solution, txs missing, txs over
\* the block size limit, new txs over limit, else level 0; a local share is
\* never punished as block-stale and a block solution that is not stale is
\* never punished.
C13_PunishOrder ==
    PunishCall =>
        LET r == call.result
        IN  /\ RuleStale => r.level > 0 /\ r.reason = "Block-stale detected!"
            /\ (~RuleStale /\ RuleBlock) => r.level = -1 /\ r.reason = "block solution"
            /\ (~RuleStale /\ ~RuleBlock /\ RuleMissing) =>
                   r.level > 0 /\ r.reason = "not all txs present"
            /\ (~RuleStale /\ ~RuleBlock /\ ~RuleMissing /\ RuleAllOver) =>
                   r.level > 0 /\ r.reason = "txs over block size limit"
            /\ (~RuleStale /\ ~RuleBlock /\ ~RuleMissing /\ ~RuleAllOver /\ RuleNewOver) =>
                   r.level > 0 /\ r.reason = "new txs over limit"
            /\ (~RuleStale /\ ~RuleBlock /\ ~RuleMissing /\ ~RuleAllOver /\ ~RuleNewOver) =>
                   r.level = 0
            /\ call.self.peer = None => r.reason # "Block-stale detected!"

\* a block solution that is not stale, with a referenced transaction unknown
C13_Witness ==
    /\ PunishCall
    /\ ~RuleStale /\ RuleBlock /\ RuleMissing
    /\ call.self.peer = None
    /\ call.self.header_previous_block # call.previous_block
    /\ call.result.level = -1

\* the limits are exclusive: sizes at the limits are not punished
C13_WitnessAtLimits ==
    /\ PunishCall
    /\ ~RuleMissing
    /\ SizeOf(RefHashes) = 1000000
    /\ call.result.level = 0

\* ------------------------------------------------------------------ timestamps
\* math.clip(x, (low, high))
clip(x, low, high) == IF x < low THEN low ELSE IF x > high THEN high ELSE x

\* faulty variant: the desired timestamp is taken as it is
generate_timestamp_unclamped(previous_share, desired_timestamp, n) ==
    desired_timestamp

\* share_info['timestamp'] of generate_transaction; previous_share is Nothing
\* when share_data['previous_share_hash'] is None
generate_timestamp(previous_share, desired_timestamp, n) ==
    IF previous_share # Nothing
    THEN clip(desired_timestamp,
              (previous_share.timestamp + n.SHARE_PERIOD) - (n.SHARE_PERIOD - 1),
              (previous_share.timestamp + n.SHARE_PERIOD) + (n.SHARE_PERIOD - 1))
    ELSE desired_timestamp

previous_of(it, share) ==
    IF share.previous_hash = None THEN Nothing ELSE it[share.previous_hash]

\* check: share_info is generated again with the share's own timestamp as
\* desired_timestamp and compared with the stored one
check_share_info(it, share, n) ==
    LET share_info == [timestamp |-> generate_timestamp(previous_of(it, share),
                                                        share.timestamp, n)]
    IN  IF share_info # [timestamp |-> share.timestamp]
        THEN Raise("ValueError", "share_info invalid")
        ELSE [status |-> "ok", msg |-> "", share |-> None]

\* ------------------------------------------------------------------ SpecTimestamp
MaxTime == 6
SharePeriods == {1, 2, 3}
TsHashes == <<"s1", "s2">>

TsFree == {i \in 1..Len(TsHashes) : TsHashes[i] \notin DOMAIN items}
TsNextHash == TsHashes[CHOOSE i \in TsFree : \A j \in TsFree : i <= j]

TimestampInit ==
    /\ call = NoCall /\ store = NoCall
    /\ \E period \in SharePeriods : net = [SHARE_PERIOD |-> period]
    /\ chain = <<>> /\ chain_last = None
    /\ GtIdle /\ SkIdle /\ WireIdle /\ TkIdle

TsAdd(share) ==
    items' = [g \in DOMAIN items \cup {TsNextHash} |->
                 IF g = TsNextHash THEN share ELSE items[g]]

\* a share arrives from a peer with the timestamp its sender chose
TsReceive(previous_hash, timestamp) ==
    /\ call = NoCall
    /\ TsFree # {}
    /\ TsAdd([previous_hash |-> previous_hash, timestamp |-> timestamp,
              peer |-> "peer1"])
    /\ UNCHANGED <<net, store, call, chain_vars, sk_vars, gt_vars, wire_vars, verified, tk_pc,
                   tk, av, tk_out>>

\* generate_transaction and get_share make a local share, which is added
TsGenerate(previous_hash, desired_timestamp) ==
    /\ call = NoCall
    /\ TsFree # {}
    /\ LET previous_share == IF previous_hash = None THEN Nothing
                             ELSE items[previous_hash]
           timestamp == generate_timestamp(previous_share, desired_timestamp, net)
       IN  /\ call' = [fn |-> "generate_transaction", previous_share |-> previous_share,
                       desired_timestamp |-> desired_timestamp,
                       timestamp |-> timestamp]
           /\ TsAdd([previous_hash |-> previous_hash, timestamp |-> timestamp,
                     peer |-> None])
    /\ UNCHANGED <<net, store, chain_vars, sk_vars, gt_vars, wire_vars, verified, tk_pc,
                   tk, av, tk_out>>

\* attempt_verify: the share joins verified when check raises nothing
TsAttemptVerify(share_hash) ==
    /\ call = NoCall
    /\ share_hash \in DOMAIN items
    /\ share_hash \notin verified
    /\ LET r == check_share_info(items, items[share_hash], net)
       IN  /\ call' = [fn |-> "attempt_verify", share_hash |-> share_hash,
                       check |-> r, result |-> (r.status = "ok")]
           /\ verified' = IF r.status = "ok" THEN verified \cup {share_hash}
                          ELSE verified
    /\ UNCHANGED <<net, store, chain_vars, sk_vars, gt_vars, wire_vars, items, tk_pc,
                   tk, av, tk_out>>

TimestampNext ==
    \/ /\ call = NoCall
       /\ \E previous_hash \in {None} \cup DOMAIN items, timestamp \in 0..MaxTime :
             TsReceive(previous_hash, timestamp)
    \/ /\ call = NoCall
       /\ \E previous_hash \in {None} \cup DOMAIN items, timestamp \in 0..MaxTime :
             TsGenerate(previous_hash, timestamp)
    \/ /\ call = NoCall
       /\ \E share_hash \in DOMAIN items : TsAttemptVerify(share_hash)
    \/ CallReturn

SpecTimestamp == TimestampInit /\ [][TimestampNext]_vars

InWindow(share) ==
    LET previous == items[share.previous_hash]
    IN  /\ previous.timestamp + 1 <= share.timestamp
        /\ share.timestamp <= previous.timestamp + 2 * net.SHARE_PERIOD - 1

\* C14: every verified share with a previous share has its timestamp in
\* previous.timestamp + 1 .. previous.timestamp + 2*SHARE_PERIOD - 1; a share
\* outside the window fails check with 'share_info invalid' and does not
\* enter verified; generate_transaction clamps desired_timestamp into the
\* window when there is a previous share and leaves it alone when there is
\* none.
C14_TimestampWindow ==
    /\ \A h \in verified : items[h].previous_hash # None => InWindow(items[h])
    /\ \A h \in DOMAIN items :
          (items[h].previous_hash # None /\ ~InWindow(items[h])) => h \notin verified
    /\ (call # NoCall /\ call.fn = "attempt_verify"
        /\ items[call.share_hash].previous_hash # None
        /\ ~InWindow(items[call.share_hash])) =>
           /\ ~call.result
           /\ call.check.status = "ValueError"
           /\ call.check.msg = "share_info invalid"
    /\ (call # NoCall /\ call.fn = "generate_transaction") =>
           IF call.previous_share = Nothing
           THEN call.timestamp = call.desired_timestamp
           ELSE LET low == call.previous_share.timestamp + 1
                    high == call.previous_share.timestamp + 2 * net.SHARE_PERIOD - 1
                IN  /\ low <= call.timestamp /\ call.timestamp <= high
                    /\ (low <= call.desired_timestamp /\ call.desired_timestamp <= high)
                           => call.timestamp = call.desired_timestamp
                    /\ call.desired_timestamp < low => call.timestamp = low
                    /\ call.desired_timestamp > high => call.timestamp = high

\* a peer's share above the window was refused while a share inside it is
\* verified
C14_Witness ==
    /\ call # NoCall /\ call.fn = "attempt_verify"
    /\ ~call.result
    /\ items[call.share_hash].previous_hash # None
    /\ items[call.share_hash].timestamp
           > items[items[call.share_hash].previous_hash].timestamp
             + 2 * net.SHARE_PERIOD - 1
    /\ net.SHARE_PERIOD > 1
    /\ items[call.share_hash].previous_hash \in verified

\* a desired timestamp below the window was raised to previous.timestamp + 1
C14_WitnessClamped ==
    /\ call # NoCall /\ call.fn = "generate_transaction"
    /\ call.previous_share # Nothing
    /\ call.desired_timestamp <= call.previous_share.timestamp
    /\ call.timestamp = call.previous_share.timestamp + 1

\* ------------------------------------------------------------------ targets
\* 2**256 of the target arithmetic, scaled so that max_target*11 stays inside
\* TLC's integers; bitcoin_data.FloatingInteger keeps its three byte
\* mantissa, so targets from 2^23 on lose their low bytes as they do in the
\* program.
TargetSpace == 2^30

RECURSIVE ByteLen(_)
ByteLen(x) == IF x = 0 THEN 0 ELSE 1 + ByteLen(x \div 256)

\* FloatingInteger.from_target_upper_bound(target).bits: the length of the
\* big-endian string (with a zero byte in front when its first byte is 128
\* or more) above the first three bytes of that string
from_target_upper_bound(target) ==
    LET len0 == ByteLen(target)
        len == IF len0 > 0 /\ target \div (256 ^ (len0 - 1)) >= 128
               THEN len0 + 1 ELSE len0
        mantissa == IF len <= 3 THEN target * (256 ^ (3 - len))
                    ELSE target \div (256 ^ (len - 3))
    IN  len * (2 ^ 24) + mantissa

\* FloatingInteger.target
bits_target(bits) ==
    LET len == bits \div (2 ^ 24)
        mantissa == bits % (2 ^ 24)
    IN  IF len >= 3 THEN mantissa * (256 ^ (len - 3))
        ELSE mantissa \div (256 ^ (3 - len))

\* tracker.get_delta(near.hash, far.hash).min_work: the shares after far up
\* to near; c holds the chain of previous_share_hash, oldest first
RECURSIVE min_work_sum(_, _, _)
min_work_sum(c, lo, hi) ==
    IF lo > hi THEN 0
    ELSE TargetSpace \div (c[lo].max_target + 1) + min_work_sum(c, lo + 1, hi)

\* get_pool_attempts_per_second(tracker, previous_share_hash, dist,
\* min_work=True, integer=True)
get_pool_attempts_per_second(c, dist) ==
    LET near == c[Len(c)]
        far == c[Len(c) - (dist - 1)]
        attempts == min_work_sum(c, Len(c) - (dist - 1) + 1, Len(c))
        time == IF near.timestamp - far.timestamp <= 0 THEN 1
                ELSE near.timestamp - far.timestamp
    IN  attempts \div time

\* 2**256//(SHARE_PERIOD*attempts_per_second) is computed below as
\* (2**256//SHARE_PERIOD)//attempts_per_second, the same number, whose
\* intermediate product cannot leave TLC's integers.

\* faulty variant: the rate-derived target is not held within a tenth of the
\* previous max_target
generate_targets_undamped(c, desired_target, n) ==
    LET pre_target3 ==
            IF Len(c) < n.TARGET_LOOKBEHIND THEN n.MAX_TARGET
            ELSE LET attempts_per_second ==
                         get_pool_attempts_per_second(c, n.TARGET_LOOKBEHIND)
                     pre_target == IF attempts_per_second # 0
                                   THEN (TargetSpace \div n.SHARE_PERIOD) \div attempts_per_second - 1
                                   ELSE TargetSpace - 1
                 IN  clip(pre_target, n.MIN_TARGET, n.MAX_TARGET)
    IN  [pre_target3 |-> pre_target3,
         max_bits |-> from_target_upper_bound(pre_target3),
         bits |-> from_target_upper_bound(
                      clip(desired_target, pre_target3 \div 10, pre_target3))]

\* pre_target3, max_bits and bits of generate_transaction
generate_targets(c, desired_target, n) ==
    LET pre_target3 ==
            IF Len(c) < n.TARGET_LOOKBEHIND THEN n.MAX_TARGET
            ELSE LET previous_share == c[Len(c)]
                     attempts_per_second ==
                         get_pool_attempts_per_second(c, n.TARGET_LOOKBEHIND)
                     pre_target == IF attempts_per_second # 0
                                   THEN (TargetSpace \div n.SHARE_PERIOD) \div attempts_per_second - 1
                                   ELSE TargetSpace - 1
                     pre_target2 == clip(pre_target,
                                         (previous_share.max_target * 9) \div 10,
                                         (previous_share.max_target * 11) \div 10)
                 IN  clip(pre_target2, n.MIN_TARGET, n.MAX_TARGET)
    IN  [pre_target3 |-> pre_target3,
         max_bits |-> from_target_upper_bound(pre_target3),
         bits |-> from_target_upper_bound(
                      clip(desired_target, pre_target3 \div 10, pre_target3))]

\* ------------------------------------------------------------------ SpecTarget
MaxTargetChain == 3
\* 0x03FFFFFF needs a fourth byte; 0x03FFFF00 is what the encoding keeps of it
TargetNets ==
    {[TARGET_LOOKBEHIND |-> 2, SHARE_PERIOD |-> period, MIN_TARGET |-> lo,
      MAX_TARGET |-> hi] : period \in {1, 10}, lo \in {0, 4096},
                           hi \in {67108863, 67108608}}
\* max_target of the shares of the chain: encodings only
ChainMaxTargets == {bits_target(from_target_upper_bound(t)) :
                        t \in {0, 4096, 1000000, 20000000, 67108863}}
ChainGaps == {0, 1, 30}
DesiredTargets(n) == {0, 9999999, n.MAX_TARGET, TargetSpace - 1}

RECURSIVE TargetChains(_)
TargetChains(len) ==
    IF len = 0 THEN {<<>>}
    ELSE {Append(c, [max_target |-> t,
                     timestamp |-> IF c = <<>> THEN 100
                                   ELSE c[Len(c)].timestamp + gap]) :
             c \in TargetChains(len - 1), t \in ChainMaxTargets, gap \in ChainGaps}

TargetInit ==
    /\ call = NoCall /\ store = NoCall
    /\ net \in TargetNets
    /\ chain = <<>> /\ chain_last = None
    /\ GtIdle /\ SkIdle /\ WireIdle /\ TkIdle

GenerateTargets(c, desired_target) ==
    /\ call = NoCall
    /\ call' = [fn |-> "generate_targets", chain |-> c,
                desired_target |-> desired_target,
                result |-> generate_targets(c, desired_target, net)]
    /\ UNCHANGED <<net, store, chain_vars, sk_vars, gt_vars, wire_vars, tk_vars>>

TargetNext ==
    \/ /\ call = NoCall
       /\ \E len \in 0..MaxTargetChain :
             \E c \in TargetChains(len), desired_target \in DesiredTargets(net) :
                GenerateTargets(c, desired_target)
    \/ CallReturn

SpecTarget == TargetInit /\ [][TargetNext]_vars

TargetCall == call # NoCall /\ call.fn = "generate_targets"
TargetPrevious == call.chain[Len(call.chain)]
TargetClipped ==
    clip(call.desired_target, call.result.pre_target3 \div 10, call.result.pre_target3)

\* the window of pre_target3, which C15 and its amendment share
TargetWindow ==
    /\ Len(call.chain) < net.TARGET_LOOKBEHIND => call.result.pre_target3 = net.MAX_TARGET
    /\ net.MIN_TARGET <= call.result.pre_target3
    /\ call.result.pre_target3 <= net.MAX_TARGET
    /\ (/\ Len(call.chain) >= net.TARGET_LOOKBEHIND
        /\ net.MIN_TARGET <= TargetPrevious.max_target
        /\ TargetPrevious.max_target <= net.MAX_TARGET) =>
           /\ call.result.pre_target3 <= (TargetPrevious.max_target * 11) \div 10
           /\ call.result.pre_target3 >= (TargetPrevious.max_target * 9) \div 10

\* C15 as stated: pre_target3 is MAX_TARGET below TARGET_LOOKBEHIND, else
\* the rate-derived target held within a tenth of previous.max_target and
\* within MIN_TARGET..MAX_TARGET; the share target is desired_target clamped
\* to pre_target3/10 .. pre_target3, so that desired_target = MAX_TARGET
\* yields exactly pre_target3.
C15_TargetWindow ==
    TargetCall =>
        /\ TargetWindow
        /\ bits_target(call.result.bits) = TargetClipped
        /\ call.desired_target = net.MAX_TARGET =>
               bits_target(call.result.bits) = call.result.pre_target3

\* C15 amended: the window of pre_target3 as stated; the share target is the
\* compact encoding of desired_target clamped to pre_target3/10 ..
\* pre_target3: it is never above the clamped value and below it by less
\* than one part in 32768, and desired_target = MAX_TARGET yields max_bits,
\* whose target is pre_target3 rounded down in the same way.
C15_TargetWindowEncoded ==
    TargetCall =>
        /\ TargetWindow
        /\ bits_target(call.result.bits) <= TargetClipped
        /\ TargetClipped - bits_target(call.result.bits) <= TargetClipped \div 32768
        /\ call.desired_target = net.MAX_TARGET =>
               /\ call.result.bits = call.result.max_bits
               /\ bits_target(call.result.bits) <= call.result.pre_target3

\* a chain long enough for the rate, whose target the tenth window holds
\* back, and an encoding that lost low bits of MAX_TARGET
C15_Witness ==
    /\ TargetCall
    /\ Len(call.chain) >= net.TARGET_LOOKBEHIND
    /\ call.result.pre_target3 = (TargetPrevious.max_target * 11) \div 10
    /\ call.result.pre_target3 < net.MAX_TARGET
    /\ call.result.pre_target3 > net.MIN_TARGET
    /\ call.desired_target = net.MAX_TARGET
    /\ bits_target(call.result.bits) < call.result.pre_target3

\* ------------------------------------------------------------------ transaction references
\* news[d] is new_transaction_hashes of the d-th share of
\* tracker.get_chain(previous_share_hash, ...): news[1] is the previous share.

\* list.index(x), counted from 0
index(list, x) ==
    (CHOOSE i \in 1..Len(list) : list[i] = x /\ \A j \in 1..(i - 1) : list[j] # x) - 1

\* faulty variant: the previous share is counted as 0
ancestor_ref_from_zero(i, share_news, tx_hash) ==
    [share_count |-> i, tx_count |-> index(share_news, tx_hash)]

\* the reference to a hash found in the share that enumerate numbers i
ancestor_ref(i, share_news, tx_hash) ==
    [share_count |-> i + 1, tx_count |-> index(share_news, tx_hash)]

\* faulty variant: a transaction over the budget is passed over and the loop
\* goes on with the next hash
RECURSIVE refs_loop_passing_over(_, _, _, _, _, _)
refs_loop_passing_over(desired, k, news, height, known_txs, acc) ==
    IF k > Len(desired) THEN acc
    ELSE LET tx_hash == desired[k]
             found == {i \in 0..(Min(height, 100) - 1) :
                          tx_hash \in SeqRange(news[i + 1])}
         IN  IF found # {}
             THEN LET i == CHOOSE a \in found : \A b \in found : a <= b
                  IN  refs_loop_passing_over(desired, k + 1, news, height, known_txs,
                        [acc EXCEPT
                           !.transaction_hash_refs =
                               Append(@, ancestor_ref(i, news[i + 1], tx_hash)),
                           !.other_transaction_hashes = Append(@, tx_hash)])
             ELSE IF /\ known_txs # Nothing
                     /\ acc.new_transaction_size + known_txs.value[tx_hash] > 50000
             THEN refs_loop_passing_over(desired, k + 1, news, height, known_txs, acc)
             ELSE refs_loop_passing_over(desired, k + 1, news, height, known_txs,
                    [new_transaction_hashes |-> Append(acc.new_transaction_hashes, tx_hash),
                     new_transaction_size |->
                         IF known_txs # Nothing
                         THEN acc.new_transaction_size + known_txs.value[tx_hash]
                         ELSE acc.new_transaction_size,
                     transaction_hash_refs |->
                         Append(acc.transaction_hash_refs,
                                [share_count |-> 0,
                                 tx_count |-> Len(acc.new_transaction_hashes)]),
                     other_transaction_hashes |->
                         Append(acc.other_transaction_hashes, tx_hash)])

\* the loop over desired_other_transaction_hashes from its k-th element on;
\* known_txs is Nothing or Some of the packed sizes of the transactions
RECURSIVE refs_loop(_, _, _, _, _, _)
refs_loop(desired, k, news, height, known_txs, acc) ==
    IF k > Len(desired) THEN acc
    ELSE LET tx_hash == desired[k]
             found == {i \in 0..(Min(height, 100) - 1) :
                          tx_hash \in SeqRange(news[i + 1])}
         IN  IF found # {}
             THEN LET i == CHOOSE a \in found : \A b \in found : a <= b
                  IN  refs_loop(desired, k + 1, news, height, known_txs,
                        [acc EXCEPT
                           !.transaction_hash_refs =
                               Append(@, ancestor_ref(i, news[i + 1], tx_hash)),
                           !.other_transaction_hashes = Append(@, tx_hash)])
             ELSE IF /\ known_txs # Nothing
                     /\ acc.new_transaction_size + known_txs.value[tx_hash] > 50000
             THEN acc
             ELSE refs_loop(desired, k + 1, news, height, known_txs,
                    [new_transaction_hashes |-> Append(acc.new_transaction_hashes, tx_hash),
                     new_transaction_size |->
                         IF known_txs # Nothing
                         THEN acc.new_transaction_size + known_txs.value[tx_hash]
                         ELSE acc.new_transaction_size,
                     transaction_hash_refs |->
                         Append(acc.transaction_hash_refs,
                                [share_count |-> 0,
                                 tx_count |-> Len(acc.new_transaction_hashes)]),
                     other_transaction_hashes |->
                         Append(acc.other_transaction_hashes, tx_hash)])

generate_refs(desired, news, height, known_txs) ==
    refs_loop(desired, 1, news, height, known_txs,
              [new_transaction_hashes |-> <<>>, new_transaction_size |-> 0,
               transaction_hash_refs |-> <<>>, other_transaction_hashes |-> <<>>])

\* check: the hashes the references of a share stand for; share_count 0 is
\* the share itself
check_other_tx_hashes(refs, own_news, news) ==
    LET share_news(x) == IF refs[x].share_count = 0 THEN own_news
                         ELSE news[refs[x].share_count]
        bad == {x \in 1..Len(refs) :
                   \/ refs[x].share_count > Len(news)
                   \/ refs[x].tx_count + 1 > Len(share_news(x))}
    IN  IF bad # {}
        THEN IF refs[CHOOSE x \in bad : \A y \in bad : x <= y].share_count > Len(news)
             THEN Raise("KeyError", "get_nth_parent_hash")
             ELSE Raise("IndexError", "list index out of range")
        ELSE Some([x \in 1..Len(refs) |-> share_news(x)[refs[x].tx_count + 1]])

\* ------------------------------------------------------------------ SpecRefs
RefHeights == {0, 1, 2, 100, 101}
\* the ancestors that announce transactions; all others announce none
RefPlaces == <<1, 2, 100, 101>>
RefNews == {<<>>, <<"ta">>, <<"tb", "ta">>, <<"tc">>}
RefTxs == {"ta", "tb", "tc"}
RefSizes == [ta |-> 30000, tb |-> 20000, tc |-> 100]
RefDesired ==
    {<<>>} \cup {<<a>> : a \in RefTxs} \cup {<<a, b>> : a \in RefTxs, b \in RefTxs}
           \cup {<<a, b, c>> : a \in RefTxs, b \in RefTxs, c \in RefTxs}

RefChain(height, placed) ==
    [d \in 1..height |->
        IF \E j \in 1..Len(RefPlaces) : RefPlaces[j] = d
        THEN placed[CHOOSE j \in 1..Len(RefPlaces) : RefPlaces[j] = d]
        ELSE <<>>]

RefsInit == IdleInit

GenerateRefs(desired, news, height, known_txs) ==
    /\ call = NoCall
    /\ LET r == generate_refs(desired, news, height, known_txs)
       IN  call' = [fn |-> "generate_refs", desired |-> desired, news |-> news,
                    height |-> height, known_txs |-> known_txs, result |-> r,
                    resolved |-> check_other_tx_hashes(r.transaction_hash_refs,
                                                       r.new_transaction_hashes, news)]
    /\ UNCHANGED <<net, store, chain_vars, sk_vars, gt_vars, wire_vars, tk_vars>>

RefsNext ==
    \/ /\ call = NoCall
       /\ \E height \in RefHeights, placed \in [1..Len(RefPlaces) -> RefNews],
             desired \in RefDesired, known_txs \in {Nothing, Some(RefSizes)} :
             GenerateRefs(desired, RefChain(height, placed), height, known_txs)
    \/ CallReturn

SpecRefs == RefsInit /\ [][RefsNext]_vars

RefsCall == call # NoCall /\ call.fn = "generate_refs"
\* the distances, previous share first, of the ancestors in the window that
\* announce the hash
Announcers(tx_hash) ==
    {d \in 1..Len(call.news) : d <= 100 /\ \E t \in 1..Len(call.news[d]) :
                                               call.news[d][t] = tx_hash}

WideBase == 100000
WideZero == <<0, 0>>
WideDiv(x, d) == <<x[1] \div d, ((x[1] % d) * WideBase + x[2]) \div d>>
WideSub(x, y) ==
    IF x[2] >= y[2] THEN <<x[1] - y[1], x[2] - y[2]>>
    ELSE <<x[1] - y[1] - 1, x[2] + WideBase - y[2]>>
WideLess(x, y) == x[1] < y[1] \/ (x[1] = y[1] /\ x[2] < y[2])

\* amounts of a share without ancestors (weights is empty), in wide numbers
gt_amounts_genesis(subsidy, this_script) ==
    LET fee == WideDiv(subsidy, 200)
    IN  [s \in {this_script, DONATION_SCRIPT} |->
            IF s = DONATION_SCRIPT THEN WideSub(subsidy, fee) ELSE fee]

\* the sort key of dests over wide amounts
WideKeyLess(amounts, s, t) ==
    LET ds == IF s = DONATION_SCRIPT THEN 1 ELSE 0
        dt == IF t = DONATION_SCRIPT THEN 1 ELSE 0
    IN  \/ ds < dt
        \/ ds = dt /\ WideLess(amounts[s], amounts[t])
        \/ ds = dt /\ amounts[s] = amounts[t] /\ s < t

\* sorted(amounts.iterkeys(), key=...) as a list
SortedKeys(amounts, S, Less(_, _, _)) ==
    LET RECURSIVE sorted(_)
        sorted(T) ==
            IF T = {} THEN <<>>
            ELSE LET lowest == CHOOSE s \in T : \A t \in T \ {s} : Less(amounts, s, t)
                 IN  <<lowest>> \o sorted(T \ {lowest})
    IN  sorted(S)

\* gentx['tx_outs']: the outputs to dests in their order, then the
\* reference output (script -1 here)
gt_tx_out_list(amounts, Less(_, _, _), zero) ==
    LET dests == PySliceFrom(SortedKeys(amounts, DOMAIN amounts, Less), 0 - MAX_DESTS)
        paid == SelectSeq(dests, LAMBDA script :
                              amounts[script] # zero \/ script = DONATION_SCRIPT)
    IN  [i \in 1..Len(paid) |-> [value |-> amounts[paid[i]], script |-> paid[i]]]
        \o <<[value |-> zero, script |-> -1]>>

\* ------------------------------------------------------------------ SpecSplit
SplitScripts == {1, 2}
SplitWeights == {0, 1, 7, 100}
SplitDonationWeights == {0, 1, 20}
SplitSubsidies == {0, 199, 200, 5001}
MaxWideLow == 7
WideSubsidies == {<<hi, lo>> : hi \in {0, 1, 199, 200, 50000},
                               lo \in {0, 199, 200, WideBase - 1} \cup 1..MaxWideLow}

SplitInit == IdleInit

\* lines 140-148 and the outputs of 184-196 for the result of a weights lookup
PayoutSplit(weights, total_weight, subsidy, this_script) ==
    /\ call = NoCall
    /\ LET amounts == gt_amounts(weights, total_weight, subsidy, this_script)
       IN  call' = [fn |-> "payout", weights |-> weights,
                    total_weight |-> total_weight, subsidy |-> subsidy,
                    this_script |-> this_script, amounts |-> amounts,
                    tx_outs |-> gt_tx_out_list(amounts, KeyLess, 0)]
    /\ UNCHANGED <<net, store, chain_vars, sk_vars, gt_vars, wire_vars, tk_vars>>

\* the same for a share with no previous share and a wide subsidy
PayoutGenesis(subsidy, this_script) ==
    /\ call = NoCall
    /\ LET amounts == gt_amounts_genesis(subsidy, this_script)
       IN  call' = [fn |-> "payout_genesis", subsidy |-> subsidy,
                    this_script |-> this_script, amounts |-> amounts,
                    tx_outs |-> gt_tx_out_list(amounts, WideKeyLess, WideZero)]
    /\ UNCHANGED <<net, store, chain_vars, sk_vars, gt_vars, wire_vars, tk_vars>>

SplitNext ==
    \/ /\ call = NoCall
       /\ \E S \in SUBSET SplitScripts, don \in SplitDonationWeights,
             subsidy \in SplitSubsidies, this_script \in SplitScripts :
             \E weights \in [S -> SplitWeights] :
                /\ (S = {}) => don = 0
                /\ (S # {}) => SumValues(weights, 1, 2) + don > 0
                /\ PayoutSplit(weights, SumValues(weights, 1, 2) + don, subsidy,
                               this_script)
    \/ /\ call = NoCall
       /\ \E subsidy \in WideSubsidies, this_script \in SplitScripts :
             PayoutGenesis(subsidy, this_script)
    \/ CallReturn

SpecSplit == SplitInit /\ [][SplitNext]_vars

\* floor(subsidy*199*w / (200*total_weight)) by its defining inequalities
IsFloorShare(q, subsidy, w, total_weight) ==
    /\ q * (200 * total_weight) <= subsidy * 199 * w
    /\ subsidy * 199 * w < (q + 1) * (200 * total_weight)

SplitOthers(amounts) ==
    SumValues([s \in DOMAIN amounts \ {DONATION_SCRIPT} |-> amounts[s]], 1, 2)

\* C17: each script with weight w gets floor(subsidy*199*w /
\* (200*total_weight)), the finder's script gets floor(subsidy/200) on top,
\* the donation script gets the subsidy less all other amounts and never
\* less than nothing; a share with no previous share and subsidy
\* 5,000,000,000 pays, in this order, 25,000,000 to the finder,
\* 4,975,000,000 to the donation script and a reference output of value 0.
C17_PayoutSplit ==
    /\ (call # NoCall /\ call.fn = "payout") =>
          /\ \A s \in DOMAIN call.amounts \ {DONATION_SCRIPT} :
                LET fee == IF s = call.this_script THEN call.subsidy \div 200 ELSE 0
                IN  IF s \in DOMAIN call.weights
                    THEN IsFloorShare(call.amounts[s] - fee, call.subsidy,
                                      call.weights[s], call.total_weight)
                    ELSE call.amounts[s] = fee
          /\ DOMAIN call.amounts =
                 DOMAIN call.weights \cup {call.this_script, DONATION_SCRIPT}
          /\ call.amounts[DONATION_SCRIPT] = call.subsidy - SplitOthers(call.amounts)
          /\ call.amounts[DONATION_SCRIPT] >= 0
          /\ DOMAIN call.weights = {} =>
                call.tx_outs =
                    (IF call.subsidy \div 200 # 0
                     THEN <<[value |-> call.subsidy \div 200, script |-> call.this_script]>>
                     ELSE <<>>)
                    \o <<[value |-> call.subsidy - call.subsidy \div 200,
                          script |-> DONATION_SCRIPT],
                         [value |-> 0, script |-> -1]>>
    /\ (call # NoCall /\ call.fn = "payout_genesis" /\ call.subsidy = <<50000, 0>>) =>
          call.tx_outs = <<[value |-> <<250, 0>>, script |-> call.this_script],
                           [value |-> <<49750, 0>>, script |-> DONATION_SCRIPT],
                           [value |-> WideZero, script |-> -1]>>

\* the finder also holds weight, and rounding leaves a rest for the
\* donation script
C17_Witness ==
    /\ call # NoCall /\ call.fn = "payout"
    /\ call.this_script \in DOMAIN call.weights
    /\ call.weights[call.this_script] > 0
    /\ call.subsidy \div 200 > 0
    /\ call.amounts[call.this_script] > call.subsidy \div 200
    /\ call.total_weight = SumValues(call.weights, 1, 2)
    /\ call.amounts[DONATION_SCRIPT] > 0

\* the genesis share of the example
C17_WitnessGenesis ==
    /\ call # NoCall /\ call.fn = "payout_genesis"
    /\ call.subsidy = <<50000, 0>>
    /\ Len(call.tx_outs) = 3

\* ------------------------------------------------------------------ ShareStore
\* A file is known by its integer suffix.  It holds pad bytes of lines of
\* type 0 and 1, which get_shares passes over, and the lines after them; a
\* line is its characters without the newline, and origin records how the
\* line came to be and means what it was written for (the reader sees
\* neither).  known and known_desired map a
\* suffix to the share hashes and verified hashes of the file.

HexDigits == <<"0", "1", "2", "3", "4", "5", "6", "7",
               "8", "9", "a", "b", "c", "d", "e", "f">>
IsHex(c) == \E i \in 1..16 : HexDigits[i] = c
HexVal(c) == (CHOOSE i \in 1..16 : HexDigits[i] = c) - 1

\* str.strip() and str.split(' ')
strip(q) ==
    LET inked == {i \in 1..Len(q) : q[i] # " "}
    IN  IF inked = {} THEN <<>>
        ELSE SubSeq(q, CHOOSE i \in inked : \A j \in inked : i <= j,
                       CHOOSE i \in inked : \A j \in inked : i >= j)
RECURSIVE split(_)
split(q) ==
    LET spaces == {i \in 1..Len(q) : q[i] = " "}
    IN  IF spaces = {} THEN <<q>>
        ELSE LET i == CHOOSE a \in spaces : \A b \in spaces : a <= b
             IN  <<SubSeq(q, 1, i - 1)>> \o split(SubSeq(q, i + 1, Len(q)))

\* int(q, base): Nothing stands for the ValueError
RECURSIVE digits_value(_, _)
digits_value(q, base) ==
    IF q = <<>> THEN 0
    ELSE digits_value(SubSeq(q, 1, Len(q) - 1), base) * base + HexVal(q[Len(q)])
parse_int(q, base) ==
    IF q = <<>> \/ \E i \in 1..Len(q) : ~IsHex(q[i]) \/ HexVal(q[i]) >= base
    THEN Nothing
    ELSE Some(digits_value(q, base))

\* '%x' % n
RECURSIVE format_hex(_)
format_hex(n) ==
    IF n < 16 THEN <<HexDigits[n + 1]>>
    ELSE format_hex(n \div 16) \o <<HexDigits[(n % 16) + 1]>>

\* str.decode('hex'): the bytes, or Nothing for the TypeError
decode_hex(q) ==
    IF Len(q) % 2 # 0 \/ \E i \in 1..Len(q) : ~IsHex(q[i]) THEN Nothing
    ELSE Some([i \in 1..(Len(q) \div 2) |->
                  16 * HexVal(q[2 * i - 1]) + HexVal(q[2 * i])])

\* share_type.unpack: a type and the contents behind their length, both in
\* the one byte form, and nothing after them
share_type_unpack(bytes) ==
    IF Len(bytes) < 2 \/ Len(bytes) # 2 + bytes[2] THEN Nothing
    ELSE Some([type |-> bytes[1], contents |-> SubSeq(bytes, 3, Len(bytes))])

\* share_type.pack(share.as_share()).encode('hex')
encode_share(VERSION, contents) ==
    LET bytes == <<VERSION, Len(contents)>> \o contents
        hex(b) == <<HexDigits[b \div 16 + 1], HexDigits[(b % 16) + 1]>>
        RECURSIVE all(_)
        all(i) == IF i > Len(bytes) THEN <<>> ELSE hex(bytes[i]) \o all(i + 1)
    IN  all(1)

\* load_share(raw_share, net, None) seen from the store: the contents of the
\* model are the one byte that becomes the hash of the share; the
\* constructors refuse the byte 255 and contents of any other length
load_stored_share(raw_share) ==
    IF raw_share.type \in {0, 1, 2, 3, 6, 7}
    THEN Raise("PeerMisbehavingError", "sent an obsolete share")
    ELSE IF raw_share.type \in {4, 5, 8, 9}
    THEN IF Len(raw_share.contents) # 1 \/ raw_share.contents[1] = 255
         THEN Raise("ValueError", "share invalid")
         ELSE [status |-> "ok", msg |-> "",
               share |-> [VERSION |-> IF raw_share.type \in {4, 5} THEN 7
                                      ELSE raw_share.type,
                          hash |-> raw_share.contents[1]]]
    ELSE Raise("ValueError", "unknown share type")

Skipped(err) == [yield |-> Nothing, error |-> err]

\* the body of the loop over the lines of a file: what is yielded, and the
\* exception that the except clause logs
get_shares_line(chars) ==
    LET fields == split(strip(chars))
    IN  IF Len(fields) # 2 THEN Skipped("ValueError")
        ELSE LET type_id == parse_int(fields[1], 10)
                 data_hex == fields[2]
             IN  IF type_id = Nothing THEN Skipped("ValueError")
                 ELSE IF type_id.value \in {0, 1} THEN Skipped(None)
                 ELSE IF type_id.value = 2
                 THEN IF parse_int(data_hex, 16) = Nothing THEN Skipped("ValueError")
                      ELSE [yield |-> Some(<<"verified_hash",
                                             parse_int(data_hex, 16).value>>),
                            error |-> None]
                 ELSE IF type_id.value = 5
                 THEN IF decode_hex(data_hex) = Nothing THEN Skipped("TypeError")
                      ELSE LET raw_share == share_type_unpack(decode_hex(data_hex).value)
                           IN  IF raw_share = Nothing THEN Skipped("EarlyEnd")
                               ELSE IF raw_share.value.type \in {0, 1, 2, 3, 6, 7}
                               THEN Skipped(None)
                               ELSE LET r == load_stored_share(raw_share.value)
                                    IN  IF r.status # "ok" THEN Skipped(r.status)
                                        ELSE [yield |-> Some(<<"share", r.share.hash>>),
                                              error |-> None]
                 ELSE Skipped("NotImplementedError")

\* get_filenames_and_next
get_filenames(files) ==
    LET RECURSIVE sorted(_)
        sorted(S) == IF S = {} THEN <<>>
                     ELSE LET lo == CHOOSE a \in S : \A b \in S : a <= b
                          IN  <<lo>> \o sorted(S \ {lo})
    IN  sorted(DOMAIN files)
get_next(files) ==
    IF DOMAIN files = {} THEN 0
    ELSE (CHOOSE a \in DOMAIN files : \A b \in DOMAIN files : a >= b) + 1

EmptyIndex == [f \in {} |-> 0]
NoHashes == [share_hashes |-> {}, verified_hashes |-> {}]
\* d.setdefault(filename, (set(), set()))
setdefault(d, filename) ==
    [f \in DOMAIN d \cup {filename} |-> IF f \in DOMAIN d THEN d[f] ELSE NoHashes]

NewStore(files) ==
    [files |-> files, known |-> Nothing, known_desired |-> Nothing, pc |-> "new",
     rd |-> NoCall, yielded |-> <<>>, log |-> <<>>, raised |-> None, op |-> NoCall]

\* get_shares is entered
GS_Call ==
    /\ store # NoCall
    /\ store.pc \in {"new", "ready"}
    /\ IF store.known # Nothing
       THEN store' = [store EXCEPT !.raised = "AssertionError"]
       ELSE store' = [store EXCEPT !.pc = "reading", !.yielded = <<>>, !.log = <<>>,
                         !.rd = [filenames |-> get_filenames(store.files),
                                 fi |-> 1, li |-> 1, known |-> EmptyIndex]]
    /\ UNCHANGED <<net, call, chain_vars, sk_vars, gt_vars, wire_vars, tk_vars>>

\* get_shares runs up to its next line: the next file is opened, a line is
\* read, or the files are at their end and the indexes are set
GS_Step ==
    /\ store # NoCall
    /\ store.pc = "reading"
    /\ LET rd == store.rd
       IN  IF rd.fi > Len(rd.filenames)
           THEN store' = [store EXCEPT !.pc = "ready", !.rd = NoCall,
                                       !.known = Some(rd.known),
                                       !.known_desired = Some(rd.known)]
           ELSE LET filename == rd.filenames[rd.fi]
                    known == setdefault(rd.known, filename)
                    lines == store.files[filename].lines
                IN  IF rd.li > Len(lines)
                    THEN store' = [store EXCEPT !.rd = [rd EXCEPT !.known = known,
                                                           !.fi = rd.fi + 1, !.li = 1]]
                    ELSE LET line == lines[rd.li]
                             r == get_shares_line(line.chars)
                             kind == IF r.yield = Nothing THEN None ELSE r.yield.value[1]
                             known2 ==
                                 IF kind = "verified_hash"
                                 THEN [known EXCEPT ![filename].verified_hashes =
                                                        @ \cup {r.yield.value[2]}]
                                 ELSE IF kind = "share"
                                 THEN [known EXCEPT ![filename].share_hashes =
                                                        @ \cup {r.yield.value[2]}]
                                 ELSE known
                         IN  store' = [store EXCEPT
                                 !.rd = [rd EXCEPT !.known = known2, !.li = rd.li + 1],
                                 !.yielded = IF r.yield = Nothing THEN @
                                             ELSE Append(@, r.yield.value),
                                 !.log = Append(@, [filename |-> filename,
                                                    line |-> line, result |-> r])]
    /\ UNCHANGED <<net, call, chain_vars, sk_vars, gt_vars, wire_vars, tk_vars>>

\* ------------------------------------------------------------------ SpecRead
MaxLines == 2

\* lines that add_verified_hash and add_share wrote in full
VerifiedLine(share_hash) ==
    [chars |-> <<"2", " ">> \o format_hex(share_hash), origin |-> "written",
     means |-> Some(<<"verified_hash", share_hash>>)]
ShareLine(VERSION, share_hash) ==
    [chars |-> <<"5", " ">> \o encode_share(VERSION, <<share_hash>>),
     origin |-> "written", means |-> Some(<<"share", share_hash>>)]
\* a line cut short when the process stopped while writing it
Truncated(line, len) ==
    [chars |-> SubSeq(line.chars, 1, len), origin |-> "truncated", means |-> Nothing]

ReadLines ==
    {VerifiedLine(161), ShareLine(9, 42), ShareLine(8, 43), ShareLine(5, 44),
     Truncated(VerifiedLine(161), 3), Truncated(VerifiedLine(161), 1),
     Truncated(ShareLine(9, 42), 7), Truncated(ShareLine(9, 42), 6),
     Truncated(ShareLine(9, 42), 0),
     [chars |-> <<"2", " ", "a", "1", " ", "b">>, origin |-> "malformed", means |-> Nothing],
     [chars |-> <<"2", " ", "z", "1">>, origin |-> "malformed", means |-> Nothing],
     [chars |-> <<"z", " ", "a", "1">>, origin |-> "malformed", means |-> Nothing],
     [chars |-> <<"9", " ", "a", "1">>, origin |-> "unknown type_id", means |-> Nothing],
     [chars |-> <<"5", " ">> \o encode_share(9, <<42>>) \o <<"0", "0">>,
      origin |-> "undecodable", means |-> Nothing],
     [chars |-> <<"5", " ">> \o encode_share(12, <<42>>), origin |-> "unconstructible", means |-> Nothing],
     [chars |-> <<"5", " ">> \o encode_share(9, <<255>>), origin |-> "unconstructible", means |-> Nothing]}

RECURSIVE ReadContents(_)
ReadContents(len) ==
    IF len = 0 THEN {<<>>}
    ELSE ReadContents(len - 1)
         \cup {Append(c, l) : c \in {d \in ReadContents(len - 1) : Len(d) = len - 1},
                              l \in ReadLines}

ReadInit ==
    /\ call = NoCall
    /\ net = [IDLE |-> TRUE]
    /\ chain = <<>> /\ chain_last = None
    /\ GtIdle /\ SkIdle /\ WireIdle /\ TkIdle
    /\ \E c \in ReadContents(MaxLines), second \in BOOLEAN :
          store = NewStore(IF second
                           THEN (0 :> [pad |-> 0, lines |-> c])
                                @@ (1 :> [pad |-> 10, lines |-> <<VerifiedLine(161)>>])
                           ELSE (3 :> [pad |-> 0, lines |-> c]))

ReadNext == GS_Call \/ GS_Step

SpecRead == ReadInit /\ [][ReadNext]_vars

\* what the reader has made of the lines it has passed
ReadLog == IF store = NoCall THEN <<>> ELSE store.log
ReadIndex ==
    IF store = NoCall THEN EmptyIndex
    ELSE IF store.pc = "reading" THEN store.rd.known
    ELSE IF store.known = Nothing THEN EmptyIndex ELSE store.known.value
Recorded(e) ==
    /\ e.filename \in DOMAIN ReadIndex
    /\ e.line.means.value[2] \in
          (IF e.line.means.value[1] = "share" THEN ReadIndex[e.filename].share_hashes
           ELSE ReadIndex[e.filename].verified_hashes)
LinesOf(files) ==
    LET RECURSIVE count(_)
        count(S) == IF S = {} THEN 0
                    ELSE LET f == CHOOSE a \in S : TRUE
                         IN  Len(files[f].lines) + count(S \ {f})
    IN  count(DOMAIN files)

\* C20: get_shares never fails because of the content of a line: a line that
\* is truncated, malformed, of unknown type_id, or whose share does not decode
\* or construct yields nothing, every line written in full yields its share or
\* verified hash and is recorded in the index of its file, and the reader
\* reaches the end of the files having passed every line.
C20_BadLinesSkipped ==
    /\ \A i \in 1..Len(ReadLog) :
          LET e == ReadLog[i]
          IN  IF e.line.origin = "written"
              THEN e.result.yield = e.line.means /\ Recorded(e)
              ELSE e.result.yield = Nothing
    /\ (store # NoCall /\ store.pc = "ready") => Len(ReadLog) = LinesOf(store.files)

\* the same for every line that is not a truncated one
C20_UntruncatedLines ==
    /\ \A i \in 1..Len(ReadLog) :
          LET e == ReadLog[i]
          IN  IF e.line.origin = "written"
              THEN e.result.yield = e.line.means /\ Recorded(e)
              ELSE e.line.origin # "truncated" => e.result.yield = Nothing
    /\ (store # NoCall /\ store.pc = "ready") => Len(ReadLog) = LinesOf(store.files)

\* a truncated line has been read before a line written in full
C20_Witness ==
    \E i, j \in 1..Len(ReadLog) :
        /\ i < j
        /\ ReadLog[i].line.origin = "truncated"
        /\ ReadLog[j].line.origin = "written"

\* ------------------------------------------------------------------ SpecStore
SIZE_LIMIT == 10000000

\* os.path.getsize: the bytes passed over and each line with its newline
getsize(file) ==
    LET RECURSIVE bytes(_)
        bytes(i) == IF i > Len(file.lines) THEN 0
                    ELSE Len(file.lines[i].chars) + 1 + bytes(i + 1)
    IN  file.pad + bytes(1)

Restrict(d, S) == [f \in S |-> d[f]]

\* faulty variant: a file that has reached the limit is still written to
add_line_upto_limit(files, line) ==
    LET filenames == get_filenames(files)
        filename == IF filenames # <<>>
                       /\ getsize(files[filenames[Len(filenames)]]) <= SIZE_LIMIT
                    THEN filenames[Len(filenames)]
                    ELSE get_next(files)
    IN  [filename |-> filename,
         files |-> [f \in DOMAIN files \cup {filename} |->
                       IF f # filename THEN files[f]
                       ELSE IF f \in DOMAIN files
                       THEN [files[f] EXCEPT !.lines = Append(@, line)]
                       ELSE [pad |-> 0, lines |-> <<line>>]]]

\* _add_line: the file written to and the files afterwards
add_line(files, line) ==
    LET filenames == get_filenames(files)
        filename == IF filenames # <<>>
                       /\ getsize(files[filenames[Len(filenames)]]) < SIZE_LIMIT
                    THEN filenames[Len(filenames)]
                    ELSE get_next(files)
    IN  [filename |-> filename,
         files |-> [f \in DOMAIN files \cup {filename} |->
                       IF f # filename THEN files[f]
                       ELSE IF f \in DOMAIN files
                       THEN [files[f] EXCEPT !.lines = Append(@, line)]
                       ELSE [pad |-> 0, lines |-> <<line>>]]]

\* faulty variant: a file is removed once no share of it is wanted
check_remove_shares_only(st) ==
    LET desired == st.known_desired.value
        to_remove == {f \in DOMAIN desired : desired[f].share_hashes = {}}
    IN  IF ~(to_remove \subseteq DOMAIN st.known.value) THEN [st EXCEPT !.raised = "KeyError"]
        ELSE IF ~(to_remove \subseteq DOMAIN st.files) THEN [st EXCEPT !.raised = "OSError"]
        ELSE [st EXCEPT
                 !.known = Some(Restrict(st.known.value, DOMAIN st.known.value \ to_remove)),
                 !.known_desired = Some(Restrict(desired, DOMAIN desired \ to_remove)),
                 !.files = Restrict(st.files, DOMAIN st.files \ to_remove)]

\* check_remove
check_remove(st) ==
    LET desired == st.known_desired.value
        to_remove == {f \in DOMAIN desired : /\ desired[f].share_hashes = {}
                                             /\ desired[f].verified_hashes = {}}
    IN  IF ~(to_remove \subseteq DOMAIN st.known.value) THEN [st EXCEPT !.raised = "KeyError"]
        ELSE IF ~(to_remove \subseteq DOMAIN st.files) THEN [st EXCEPT !.raised = "OSError"]
        ELSE [st EXCEPT
                 !.known = Some(Restrict(st.known.value, DOMAIN st.known.value \ to_remove)),
                 !.known_desired = Some(Restrict(desired, DOMAIN desired \ to_remove)),
                 !.files = Restrict(st.files, DOMAIN st.files \ to_remove)]

Before(st) == [files |-> st.files, known |-> st.known, known_desired |-> st.known_desired]
StoreOp(name, hash, line, wrote) ==
    [status |-> "ok", name |-> name, hash |-> hash, line |-> line, wrote |-> wrote,
     before |-> Before(store)]

\* faulty variant: the hash is looked for among the wanted hashes, so that a
\* hash on record that is wanted no more is written again
StoreAdd_by_wanted(name, field, hash, line) ==
    IF store.known = Nothing
    THEN store' = [store EXCEPT !.raised = "AttributeError",
                                !.op = StoreOp(name, hash, line, Nothing)]
    ELSE LET known == store.known.value
             desired == store.known_desired.value
             found == {f \in DOMAIN desired : hash \in desired[f][field]}
         IN  IF found # {}
             THEN \E filename \in found :
                     store' = [store EXCEPT
                         !.raised = None,
                         !.known_desired =
                             Some([setdefault(desired, filename)
                                      EXCEPT ![filename][field] = @ \cup {hash}]),
                         !.op = StoreOp(name, hash, line, Nothing)]
             ELSE LET w == add_line(store.files, line)
                  IN  store' = [store EXCEPT
                          !.raised = None,
                          !.files = w.files,
                          !.known = Some([setdefault(known, w.filename)
                                             EXCEPT ![w.filename][field] = @ \cup {hash}]),
                          !.known_desired =
                              Some([setdefault(desired, w.filename)
                                       EXCEPT ![w.filename][field] = @ \cup {hash}]),
                          !.op = StoreOp(name, hash, line, Some(w.filename))]

\* the body shared by add_share (field "share_hashes") and add_verified_hash
\* (field "verified_hashes"); the file of a hash held by several files is the
\* one the iteration over the dict meets first
StoreAdd(name, field, hash, line) ==
    IF store.known = Nothing
    THEN store' = [store EXCEPT !.raised = "AttributeError",
                                !.op = StoreOp(name, hash, line, Nothing)]
    ELSE LET known == store.known.value
             desired == store.known_desired.value
             found == {f \in DOMAIN known : hash \in known[f][field]}
         IN  IF found # {}
             THEN \E filename \in found :
                     store' = [store EXCEPT
                         !.raised = None,
                         !.known_desired =
                             Some([setdefault(desired, filename)
                                      EXCEPT ![filename][field] = @ \cup {hash}]),
                         !.op = StoreOp(name, hash, line, Nothing)]
             ELSE LET w == add_line(store.files, line)
                  IN  store' = [store EXCEPT
                          !.raised = None,
                          !.files = w.files,
                          !.known = Some([setdefault(known, w.filename)
                                             EXCEPT ![w.filename][field] = @ \cup {hash}]),
                          !.known_desired =
                              Some([setdefault(desired, w.filename)
                                       EXCEPT ![w.filename][field] = @ \cup {hash}]),
                          !.op = StoreOp(name, hash, line, Some(w.filename))]

add_share(share) ==
    /\ store # NoCall
    /\ StoreAdd("add_share", "share_hashes", share.hash,
                ShareLine(share.VERSION, share.hash))
    /\ UNCHANGED <<net, call, chain_vars, sk_vars, gt_vars, wire_vars, tk_vars>>

add_verified_hash(share_hash) ==
    /\ store # NoCall
    /\ StoreAdd("add_verified_hash", "verified_hashes", share_hash,
                VerifiedLine(share_hash))
    /\ UNCHANGED <<net, call, chain_vars, sk_vars, gt_vars, wire_vars, tk_vars>>

\* the body shared by forget_share and forget_verified_share
StoreForget(name, field, hash) ==
    IF store.known_desired = Nothing
    THEN store' = [store EXCEPT !.raised = "AttributeError",
                                !.op = StoreOp(name, hash, None, Nothing)]
    ELSE LET desired == store.known_desired.value
             forgotten == [f \in DOMAIN desired |->
                              [desired[f] EXCEPT ![field] = @ \ {hash}]]
         IN  store' = check_remove([store EXCEPT
                          !.raised = None,
                          !.known_desired = Some(forgotten),
                          !.op = StoreOp(name, hash, None, Nothing)])

forget_share(share_hash) ==
    /\ store # NoCall
    /\ StoreForget("forget_share", "share_hashes", share_hash)
    /\ UNCHANGED <<net, call, chain_vars, sk_vars, gt_vars, wire_vars, tk_vars>>

forget_verified_share(share_hash) ==
    /\ store # NoCall
    /\ StoreForget("forget_verified_share", "verified_hashes", share_hash)
    /\ UNCHANGED <<net, call, chain_vars, sk_vars, gt_vars, wire_vars, tk_vars>>

StoreShares == {[VERSION |-> 9, hash |-> 42], [VERSION |-> 8, hash |-> 43]}
StoreVerified == {42, 161}

\* the files an earlier run has left: none, one below the limit, one a byte
\* below it, one at it, and two files
StoreFiles ==
    {[f \in {} |-> 0],
     (0 :> [pad |-> 0, lines |-> <<>>]),
     (0 :> [pad |-> 0, lines |-> <<VerifiedLine(161)>>]),
     (0 :> [pad |-> SIZE_LIMIT - 6, lines |-> <<VerifiedLine(161)>>]),
     (0 :> [pad |-> SIZE_LIMIT - 5, lines |-> <<VerifiedLine(161)>>]),
     (0 :> [pad |-> SIZE_LIMIT, lines |-> <<ShareLine(9, 42)>>])
        @@ (2 :> [pad |-> 0, lines |-> <<ShareLine(8, 43)>>]),
     (1 :> [pad |-> 0, lines |-> <<ShareLine(9, 42), VerifiedLine(42)>>])
        @@ (4 :> [pad |-> SIZE_LIMIT - 14, lines |-> <<VerifiedLine(161)>>])}

StoreInit ==
    /\ call = NoCall
    /\ net = [IDLE |-> TRUE]
    /\ chain = <<>> /\ chain_last = None
    /\ GtIdle /\ SkIdle /\ WireIdle /\ TkIdle
    /\ \E files \in StoreFiles : store = NewStore(files)

StoreNext ==
    \/ GS_Call
    \/ GS_Step
    \/ \E share \in StoreShares : add_share(share)
    \/ \E share_hash \in StoreVerified : add_verified_hash(share_hash)
    \/ \E share_hash \in {42, 43} : forget_share(share_hash)
    \/ \E share_hash \in StoreVerified : forget_verified_share(share_hash)

SpecStore == StoreInit /\ [][StoreNext]_vars

\* the last operation on the store, when it has returned
LastOp == IF store = NoCall \/ store.raised # None THEN NoCall ELSE store.op
FieldOf(name) ==
    IF name \in {"add_share", "forget_share"} THEN "share_hashes" ELSE "verified_hashes"
Wanted(entry) == entry.share_hashes \cup entry.verified_hashes

\* C18: forget_share and forget_verified_share take the hash out of
\* known_desired only, and check_remove then deletes exactly the files whose
\* wanted share set and wanted verified set are both empty, dropping them from
\* both indexes; a file with a wanted hash left is not deleted, keeps its
\* contents and its entry in known, and keeps in known_desired what it had
\* but for the forgotten hash.
C18_ForgetAndRemove ==
    LastOp.status = "ok" /\ LastOp.name \in {"forget_share", "forget_verified_share"}
    => LET before == LastOp.before
           field == FieldOf(LastOp.name)
           desired == before.known_desired.value
           left(f) == [desired[f] EXCEPT ![field] = @ \ {LastOp.hash}]
           kept == {f \in DOMAIN desired : Wanted(left(f)) # {}}
           gone == DOMAIN desired \ kept
       IN  /\ DOMAIN store.files = DOMAIN before.files \ gone
           /\ \A f \in DOMAIN store.files : store.files[f] = before.files[f]
           /\ DOMAIN store.known.value = DOMAIN before.known.value \ gone
           /\ \A f \in DOMAIN store.known.value :
                 store.known.value[f] = before.known.value[f]
           /\ DOMAIN store.known_desired.value = kept
           /\ \A f \in kept : store.known_desired.value[f] = left(f)

\* a forgotten hash was the last wanted one of a file, which is deleted, while
\* another file, some hash of which is wanted no more, has a wanted hash left
\* and stays
C18_Witness ==
    /\ LastOp.status = "ok"
    /\ LastOp.name \in {"forget_share", "forget_verified_share"}
    /\ LET desired == LastOp.before.known_desired.value
       IN  /\ \E f \in DOMAIN desired :
                 /\ Wanted(desired[f]) # {}
                 /\ f \notin DOMAIN store.files
           /\ \E f \in DOMAIN desired :
                 /\ f \in DOMAIN store.files
                 /\ Wanted(store.known_desired.value[f]) # {}
                 /\ store.known.value[f] # store.known_desired.value[f]

\* C19: a new line goes to the file with the highest suffix while the size of
\* that file is below 10 MB, and otherwise (no file, or the last file at the
\* limit) to a new file with the highest suffix plus one, 0 when there is no
\* file; no other file changes.
C19_AppendToLast ==
    LastOp.status = "ok" /\ LastOp.name \in {"add_share", "add_verified_hash"}
    => LET files == LastOp.before.files
           last == CHOOSE a \in DOMAIN files : \A b \in DOMAIN files : a >= b
       IN  IF LastOp.wrote = Nothing THEN store.files = files
           ELSE LET filename == LastOp.wrote.value
                IN  /\ IF DOMAIN files # {} /\ getsize(files[last]) < SIZE_LIMIT
                       THEN /\ filename = last
                            /\ store.files[filename].pad = files[last].pad
                            /\ store.files[filename].lines =
                                  Append(files[last].lines, LastOp.line)
                       ELSE /\ filename = IF DOMAIN files = {} THEN 0 ELSE last + 1
                            /\ store.files[filename] = [pad |-> 0, lines |-> <<LastOp.line>>]
                    /\ DOMAIN store.files = DOMAIN files \cup {filename}
                    /\ \A f \in DOMAIN files \ {filename} : store.files[f] = files[f]

\* the last file was exactly at the limit and the line went to a new file
C19_Witness ==
    /\ LastOp.status = "ok"
    /\ LastOp.name \in {"add_share", "add_verified_hash"}
    /\ LastOp.wrote # Nothing
    /\ LET files == LastOp.before.files
       IN  /\ DOMAIN files # {}
           /\ \E last \in DOMAIN files :
                 /\ \A b \in DOMAIN files : last >= b
                 /\ getsize(files[last]) = SIZE_LIMIT
                 /\ LastOp.wrote.value = last + 1
                 /\ store.files[last] = files[last]

\* the last file was one byte below the limit and took the line
C19_WitnessBelow ==
    /\ LastOp.status = "ok"
    /\ LastOp.name \in {"add_share", "add_verified_hash"}
    /\ LastOp.wrote # Nothing
    /\ LET files == LastOp.before.files
       IN  /\ LastOp.wrote.value \in DOMAIN files
           /\ getsize(files[LastOp.wrote.value]) = SIZE_LIMIT - 1
           /\ getsize(store.files[LastOp.wrote.value]) > SIZE_LIMIT

\* ------------------------------------------------------------------ error kinds
\* the rejections of load_share that a peer's data causes
PeerCaused ==
    {"sent an obsolete share", "unknown share type", "merkle branch too long",
     "share target invalid", "share PoW invalid"}

\* C21: a rejection caused by what a peer sent has the kind
\* PeerMisbehavingError: an envelope of unknown type, a merkle branch of more
\* than 16 entries, an obsolete type, an invalid target and an invalid PoW.
C21_PeerMisbehaving ==
    (wire_in # NoCall /\ wire_in.via = "load_share" /\ wire_out.msg \in PeerCaused)
    => wire_out.status = "PeerMisbehavingError"

\* the same for the three rejections that do have the kind
C21_ObsoletePowTarget ==
    (/\ wire_in # NoCall
     /\ wire_in.via = "load_share"
     /\ wire_out.msg \in {"sent an obsolete share", "share target invalid",
                          "share PoW invalid"})
    => wire_out.status = "PeerMisbehavingError"

\* an envelope of unknown type and a share with a branch of 17 entries have
\* been refused
C21_WitnessUnknownType ==
    /\ wire_in # NoCall
    /\ wire_in.via = "load_share"
    /\ wire_in.type \notin {0, 1, 2, 3, 4, 5, 8, 9}
    /\ wire_out.msg = "unknown share type"
C21_WitnessDeepBranch ==
    /\ wire_in # NoCall
    /\ wire_in.via = "load_share"
    /\ wire_in.type \in {4, 8, 9}
    /\ wire_in.contents.merkle_link.branch_len > 16
    /\ wire_out.msg = "merkle branch too long"

\* ------------------------------------------------------------------ weight sums
\* sum(weights.itervalues()) of a lookup result
LookupSum(res) == SumValues(res.weights, 0, MaxScript(chain, 1, Len(chain)))

\* C22: every result (weights, total_weight, donation_weight) of the weights
\* lookup has total_weight = sum of the weights of the scripts +
\* donation_weight, also when the last share consumed was cut to reach
\* desired_weight.
C22_WeightsAddUp ==
    (sk_pc = "done" /\ sk_res.status = "ok")
    => sk_res.total = LookupSum(sk_res) + sk_res.don

\* a lookup ended inside a share that gives a part of its weight away
C22_Witness ==
    /\ sk_pc = "done"
    /\ sk_res.status = "ok"
    /\ sk_res.count >= 2
    /\ sk_res.total = sk_args.desired_weight
    /\ PrefixTotal(sk_res.count) > sk_args.desired_weight
    /\ chain[sk_res.count].donation > 0
    /\ sk_res.don > 0

\* the assertion on the sum at the start of the payout computation of
\* generate_transaction does not fail
C22_AssertionHolds ==
    (gt_pc = "done" /\ gt_weights # NoCall /\ gt_weights.status = "ok")
    => gt_gentx.status # "AssertionError"
C22_AssertionReached == gt_pc = "amounts" /\ gt_weights.total > 0

\* ------------------------------------------------------------------ budget of new transactions
\* packed size of new_transaction_hashes[1..n] of the call
RECURSIVE NewSize(_)
NewSize(n) ==
    IF n = 0 THEN 0
    ELSE call.known_txs.value[call.result.new_transaction_hashes[n]] + NewSize(n - 1)

RefsCallKnown == RefsCall /\ call.known_txs # Nothing

\* C23: with known_txs, the packed size of the transactions in
\* new_transaction_hashes is at most 50,000 bytes; the loop stops at the first
\* hash no ancestor announces that would exceed the budget, so the returned
\* other_transaction_hashes is a prefix of the desired list;
\* transaction_hash_refs has one entry per returned hash, in order, and every
\* index i of new_transaction_hashes has the reference (0, i).
C23_NewTxBudget ==
    RefsCallKnown =>
        LET r == call.result
            refs == r.transaction_hash_refs
            taken == Len(r.other_transaction_hashes)
            new == r.new_transaction_hashes
        IN  /\ NewSize(Len(new)) <= 50000
            /\ r.new_transaction_size = NewSize(Len(new))
            /\ taken <= Len(call.desired)
            /\ r.other_transaction_hashes = SubSeq(call.desired, 1, taken)
            /\ taken < Len(call.desired) =>
                  /\ Announcers(call.desired[taken + 1]) = {}
                  /\ NewSize(Len(new)) + call.known_txs.value[call.desired[taken + 1]]
                        > 50000
            /\ Len(refs) = taken
            /\ call.resolved = Some(r.other_transaction_hashes)
            /\ \A i \in 1..Len(new) :
                  \E x \in 1..taken :
                      /\ refs[x] = [share_count |-> 0, tx_count |-> i - 1]
                      /\ call.desired[x] = new[i]

\* the budget is used up to the last byte and the next new transaction stops
\* the loop
C23_Witness ==
    /\ RefsCallKnown
    /\ call.result.new_transaction_size = 50000
    /\ Len(call.desired) = 3
    /\ Len(call.result.other_transaction_hashes) = 2

\* the loop stopped before a hash that an ancestor announces
C23_WitnessStop ==
    /\ RefsCallKnown
    /\ Len(call.desired) = 3
    /\ Len(call.result.other_transaction_hashes) = 1
    /\ Announcers(call.desired[3]) # {}

\* ------------------------------------------------------------------ think and the tracker
\* a step of the first loop that tries a share
TriesShare == tk_pc = "walk1" /\ tk.walk # <<>>

\* C24: in the first phase of think the walk below a head stops at the first
\* share that verifies; a share that fails is marked bad exactly when it is a
\* head; the shares marked bad are all removed before think goes on, each of
\* them a head of the tracker that is not verified at that moment (the two
\* assertions hold), also when an ancestor of the bad head has verified in the
\* same walk; nothing else is removed.
C24_BadHeadsRemoved ==
    [][/\ TriesShare =>
             LET share == Head(tk.walk)
             IN  /\ av'.hash = share
                 /\ items' = items
                 /\ av'.result.value => tk_pc' = "heads" /\ tk'.bads = tk.bads
                 /\ (~av'.result.value /\ ~av'.result.raised) =>
                       /\ tk_pc' = "walk1"
                       /\ tk'.walk = Tail(tk.walk)
                       /\ tk'.bads = tk.bads \cup ({share} \cap heads(items))
       /\ tk_pc = "bads" =>
             /\ tk_pc' = "vheads"
             /\ tk.bads \subseteq heads(items)
             /\ tk.bads \cap verified = {}
             /\ DOMAIN items' = DOMAIN items \ tk.bads
             /\ \A h \in DOMAIN items' : items'[h] = items[h]
       /\ tk_pc \in {"heads", "vheads", "walk2", "rank"} =>
             /\ items' = items
             /\ tk'.bads = tk.bads]_vars

\* a bad head is about to be removed though its parent, which failed too and
\* is no head, stays, and a share further down has verified in the same walk
C24_Witness ==
    /\ tk_pc = "vheads"
    /\ \E bad \in tk.bads :
          /\ bad \notin DOMAIN items
          /\ \E parent \in DOMAIN items :
                /\ parent \notin verified
                /\ parent \notin tk.bads
                /\ items[parent].rederive # "ok"
                /\ items[parent].previous_hash \in verified

\* C25: in every state reached by additions of shares and calls of think the
\* verified shares are shares of the tracker: attempt_verify enters only a
\* share it was given from the tracker, and think removes no verified share.
C25_VerifiedSubset ==
    /\ verified \subseteq DOMAIN items
    /\ av # NoCall =>
          /\ av.hash \in DOMAIN av.tracker
          /\ av.result.verified \subseteq av.before \cup {av.hash}

\* think has removed a bad head and has verified a share that was added on
\* top of the trunk
C25_Witness ==
    /\ tk_pc = "done"
    /\ tk.bads # {}
    /\ tk.bads \cap DOMAIN items = {}
    /\ \E h \in verified : h \in SeqRange(ExtraHashes)

\* C26: a best share hash that think returns, when not None, is a share held
\* in the verified tracker, also after the back-off from a punished head.
C26_BestIsVerified ==
    (ThinkDone /\ tk_out.best # None) => tk_out.best \in verified

\* the same for a best head that is not punished
C26_UnpunishedBestIsVerified ==
    (ThinkDone /\ tk_out.best # None /\ PunishLevel(tk_out.top) <= 0)
    => tk_out.best \in verified

\* think backs off from a punished head to a parent that is in the tracker
\* and not verified
C26_WitnessUnverifiedParent ==
    /\ ThinkDone
    /\ tk_out.top # None
    /\ PunishLevel(tk_out.top) > 0
    /\ tk_out.best \in DOMAIN items
    /\ tk_out.best \notin verified

\* ------------------------------------------------------------------ SpecRequests
\* think over a tracker whose trunk stands on a share it does not have.

RequestInit ==
    /\ call = NoCall /\ store = NoCall
    /\ net = TkNet
    /\ chain = <<>> /\ chain_last = None
    /\ GtIdle /\ SkIdle /\ WireIdle
    /\ \E L \in {TkNet.CHAIN_LENGTH, TkNet.CHAIN_LENGTH + 1, TkNet.CHAIN_LENGTH + 2} :
          items = [TrunkItems(L, 9, 16383, <<>>)
                      EXCEPT ![TrunkHashes[1]].previous_hash = "missing"]
    /\ verified = {}
    /\ tk_pc = "idle" /\ tk = NoCall /\ av = NoCall /\ tk_out = NoCall

SpecRequests == RequestInit /\ [][ThinkNext]_vars

\* the shares that the loop in progress tries below the head it is at
WalkOfHead ==
    IF tk_pc = "walk1"
    THEN get_chain(items, tk.head,
                   IF tk.last = None THEN tk.head_height
                   ELSE Min(5, Max(0, tk.head_height - net.CHAIN_LENGTH)))
    ELSE get_chain(items, tk.last,
                   Min(Max(net.CHAIN_LENGTH - tk.head_height, 0),
                       IF tk.last_last # None
                       THEN Max(get_height(items, tk.last) - 1 - net.CHAIN_LENGTH, 0)
                       ELSE get_height(items, tk.last)))

\* a step of think that adds a request
AddsRequest == tk_pc \in {"walk1", "walk2"} /\ tk'.desired # tk.desired

\* every returned request names a share the tracker does not hold, the parent
\* that some chain of the tracker lacks
RequestsAreMissing ==
    ThinkDone =>
        \A w \in tk_out.want :
            /\ w[2] \notin DOMAIN items
            /\ \E h \in DOMAIN items : get_last(items, h) = w[2]

\* C27: every hash in the list of requests think returns is a share the
\* tracker does not hold when think returns, the missing parent at the bottom
\* of some chain; and think adds a request for the missing parent of a head
\* only when no share in the walk of that head verified.
C27_RequestsOnlyUnverified ==
    /\ []RequestsAreMissing
    /\ [][AddsRequest => SeqRange(WalkOfHead) \cap verified = {}]_vars

\* C27 as it holds: every returned request names a share the tracker does not
\* hold, the missing parent at the bottom of some chain; in the first loop a
\* request for the missing parent of a head is added only when no share in
\* the walk of that head verified; in the second loop it is added for a
\* share that was a verified head when the loop began, of fewer than
\* CHAIN_LENGTH verified shares, whose chain in
\* the tracker lacks a parent, whether or not shares of its walk verified.
C27_RequestsByLoop ==
    /\ []RequestsAreMissing
    /\ [][AddsRequest =>
            /\ tk.walk = <<>>
            /\ \E d \in tk'.desired \ tk.desired :
                  /\ tk'.desired = tk.desired \cup {d}
                  /\ d.hash = get_last(items, tk.head)
                  /\ d.hash \notin DOMAIN items
                  /\ d.hash # None
            /\ tk_pc = "walk1" => SeqRange(WalkOfHead) \cap verified = {}
            /\ tk_pc = "walk2" =>
                  /\ tk.head \in verified
                  /\ tk.head_height < net.CHAIN_LENGTH]_vars

\* the second loop has verified a share below a verified head and has then
\* asked for the parent the chain lacks; think returns the request
C27_Witness ==
    /\ ThinkDone
    /\ \E w \in tk_out.want :
          /\ w[2] = "missing"
          /\ av # NoCall
          /\ av.result.value
          /\ av.hash \notin av.before
          /\ get_last(items, av.hash) = "missing"
          /\ \E h \in av.before : items[h].previous_hash = av.hash

\* ---------------------------------------------- think called again and again

\* trackers to which shares were added and on which think has not run yet: a
\* chain that reaches a share with no previous share, some of whose shares
\* fail their check, and possibly one more share on it, beside it or on a
\* parent the tracker lacks
SettleInit ==
    /\ call = NoCall /\ store = NoCall
    /\ net = TkNet
    /\ chain = <<>> /\ chain_last = None
    /\ GtIdle /\ SkIdle /\ WireIdle
    /\ \E L \in {2, 3}, F \in SUBSET (1..3),
          side \in {"none"} \cup ({None, "missing", TrunkHashes[1], TrunkHashes[2]}
                                    \X {"ok", "gentx"}) :
          /\ F \subseteq 1..L
          /\ LET trunk == [h \in {TrunkHashes[i] : i \in 1..L} |->
                              [TrunkItems(L, 9, 16383, <<>>)[h] EXCEPT
                                  !.rederive = IF HashIndex(h) \in F
                                               THEN "gentx" ELSE "ok"]]
             IN  items = IF side = "none" THEN trunk
                         ELSE trunk @@ (ExtraHashes[1] :>
                                  [BaseShare EXCEPT !.previous_hash = side[1],
                                                    !.rederive = side[2]])
    /\ verified = {}
    /\ tk_pc = "idle" /\ tk = NoCall /\ av = NoCall /\ tk_out = NoCall

\* think and nothing else: no share is added between the calls
SettleNext ==
    \/ \E previous_block \in Blocks : Think_Call(previous_block, 10000)
    \/ Think_Head
    \/ Think_Verify1
    \/ Think_Bads
    \/ Think_VHead
    \/ Think_Verify2
    \/ Think_Rank
    \/ Think_Return

\* think runs to its end and is called again
SpecSettle == SettleInit /\ [][SettleNext]_vars /\ WF_vars(SettleNext)

CompleteHeads == {h \in heads(items) : get_last(items, h) = None}
Settled == CompleteHeads \subseteq verified

\* the first loop is over: each head of a complete chain is verified or is
\* about to be removed
HeadsDealtWith ==
    tk_pc = "bads" => \A h \in CompleteHeads : h \in verified \/ h \in tk.bads

\* C28: when think is called again and again and no share is added, the
\* tracker eventually stops changing, from then on every head whose chain
\* reaches a share with no previous share is verified, and in each call every
\* such head is verified or removed by the end of the first loop.
C28_ThinkSettles ==
    /\ <>[][items' = items /\ verified' = verified]_vars
    /\ <>[]Settled
    /\ []HeadsDealtWith

\* two calls have each removed a failing head of the complete chain, the
\* share below them is verified, and a further call has changed nothing
C28_Witness ==
    /\ ThinkDone
    /\ TrunkHashes[2] \notin DOMAIN items
    /\ TrunkHashes[1] \in verified
    /\ tk.bads = {}
    /\ Settled

\* --------------------------------------- references of a share that is checked

\* NewNewShare.__init__: the assertions on the references of the share
init_refs(refs, own_news) ==
    IF \E x \in 1..Len(refs) : ~(refs[x].share_count < 110)
    THEN Raise("AssertionError", "share_count")
    ELSE IF \E i \in 1..Len(own_news) :
               [share_count |-> 0, tx_count |-> i - 1] \notin SeqRange(refs)
    THEN Raise("AssertionError", "new_transaction_hashes")
    ELSE [status |-> "ok", msg |-> "", share |-> None]

\* faulty variant: only new_transaction_hashes is compared
check_refs_news_only(refs, own_news, news, height) ==
    LET other_tx_hashes == check_other_tx_hashes(refs, own_news, news)
    IN  IF other_tx_hashes.status # "ok" THEN other_tx_hashes
        ELSE LET g == generate_refs(other_tx_hashes.value, news, height, Nothing)
             IN  IF g.other_transaction_hashes # other_tx_hashes.value
                 THEN Raise("AssertionError", "other_tx_hashes2")
                 ELSE IF g.new_transaction_hashes # own_news
                 THEN Raise("ValueError", "share_info invalid")
                 ELSE [status |-> "ok", msg |-> "", share |-> None]

\* check: the hashes the references stand for are looked up, the references
\* are generated again from those hashes, and share_info is compared; the
\* other fields of share_info are taken to agree
check_refs(refs, own_news, news, height) ==
    LET other_tx_hashes == check_other_tx_hashes(refs, own_news, news)
    IN  IF other_tx_hashes.status # "ok" THEN other_tx_hashes
        ELSE LET g == generate_refs(other_tx_hashes.value, news, height, Nothing)
             IN  IF g.other_transaction_hashes # other_tx_hashes.value
                 THEN Raise("AssertionError", "other_tx_hashes2")
                 ELSE IF \/ g.transaction_hash_refs # refs
                         \/ g.new_transaction_hashes # own_news
                 THEN Raise("ValueError", "share_info invalid")
                 ELSE [status |-> "ok", msg |-> "", share |-> None]

\* chains of so many shares below the share; the shares at CkPlaces announce
\* transactions, all others none
CkHeights == {0, 1, 100, 101, 109}
CkPlaces == <<1, 100, 101>>
CkNews == {<<>>, <<"ta">>, <<"tb", "ta">>, <<"ta", "ta">>}
CkOwnNews == {<<>>, <<"ta">>, <<"tc">>}
CkRef == [share_count : {0, 1, 100, 101, 109, 110}, tx_count : {0, 1}]
CkRefs == {<<>>} \cup {<<a>> : a \in CkRef} \cup {<<a, b>> : a \in CkRef, b \in CkRef}

CkChain(height, placed) ==
    [d \in 1..height |->
        IF \E j \in 1..Len(CkPlaces) : CkPlaces[j] = d
        THEN placed[CHOOSE j \in 1..Len(CkPlaces) : CkPlaces[j] = d]
        ELSE <<>>]

RefCheckInit == IdleInit

\* a share with these references is constructed and, if that succeeds,
\* checked against the tracker
CheckRefs(refs, own_news, news, height) ==
    /\ call = NoCall
    /\ LET made == init_refs(refs, own_news)
       IN  call' = [fn |-> "check_refs", refs |-> refs, own_news |-> own_news,
                    news |-> news, height |-> height, made |-> made,
                    result |-> IF made.status = "ok"
                               THEN check_refs(refs, own_news, news, height)
                               ELSE made]
    /\ UNCHANGED <<net, store, chain_vars, sk_vars, gt_vars, wire_vars, tk_vars>>

RefCheckNext ==
    \/ /\ call = NoCall
       /\ \E height \in CkHeights, placed \in [1..Len(CkPlaces) -> CkNews],
             refs \in CkRefs, own_news \in CkOwnNews :
             CheckRefs(refs, own_news, CkChain(height, placed), height)
    \/ CallReturn

SpecRefCheck == RefCheckInit /\ [][RefCheckNext]_vars

RefCheckCall == call # NoCall /\ call.fn = "check_refs"
RefChecked == RefCheckCall /\ call.made.status = "ok"
RefPassed == RefChecked /\ call.result.status = "ok"

\* the reference is the one generate_transaction emits for the hash it
\* stands for
Canonical(x) ==
    LET ref == call.refs[x]
    IN  IF ref.share_count > 0
        THEN /\ ref.share_count <= Min(call.height, 100)
             /\ ref.tx_count + 1 <= Len(call.news[ref.share_count])
             /\ LET tx_hash == call.news[ref.share_count][ref.tx_count + 1]
                IN  /\ \A d \in Announcers(tx_hash) : ref.share_count <= d
                    /\ ref.tx_count = index(call.news[ref.share_count], tx_hash)
        ELSE /\ ref.tx_count + 1 <= Len(call.own_news)
             /\ Announcers(call.own_news[ref.tx_count + 1]) = {}

\* the reference names an ancestor that announced the hash, and a nearer
\* ancestor of the window announced it too
Farther(x) ==
    LET ref == call.refs[x]
    IN  /\ ref.share_count > 0
        /\ ref.share_count <= Len(call.news)
        /\ ref.tx_count + 1 <= Len(call.news[ref.share_count])
        /\ \E d \in Announcers(call.news[ref.share_count][ref.tx_count + 1]) :
              d < ref.share_count

Beyond(x) == call.refs[x].share_count \in 101..109

\* C29 as stated: a share that passes check has canonical references, and a
\* share with a reference to a farther ancestor or with a share_count from
\* 101 to 109 fails check with a share_info mismatch.
C29_CanonicalRefs ==
    /\ RefPassed => \A x \in 1..Len(call.refs) : Canonical(x)
    /\ RefChecked /\ (\E x \in 1..Len(call.refs) : Farther(x) \/ Beyond(x)) =>
           call.result = Raise("ValueError", "share_info invalid")

\* C29 as it holds: a share that passes check has canonical references; a
\* share with a reference to a farther ancestor or with a share_count from
\* 101 to 109 fails check, with a share_info mismatch when every one of its
\* references can be looked up and with the error of the lookup otherwise.
C29_CanonicalOrRejected ==
    /\ RefPassed => \A x \in 1..Len(call.refs) : Canonical(x)
    /\ RefChecked /\ (\E x \in 1..Len(call.refs) : Farther(x) \/ Beyond(x)) =>
           /\ call.result.status # "ok"
           /\ IF check_other_tx_hashes(call.refs, call.own_news, call.news).status = "ok"
              THEN call.result = Raise("ValueError", "share_info invalid")
              ELSE call.result.status \in {"KeyError", "IndexError"}

\* a share passes check with a reference to the previous share and one to
\* the hundredth ancestor
C29_Witness ==
    /\ RefPassed
    /\ \E x, y \in 1..Len(call.refs) :
          call.refs[x].share_count = 1 /\ call.refs[y].share_count = 100

\* a reference with share_count 101 is constructed, looked up and rejected
\* for the mismatch
C29_WitnessBeyond ==
    /\ RefChecked
    /\ \E x \in 1..Len(call.refs) : Beyond(x)
    /\ call.result = Raise("ValueError", "share_info invalid")

\* a reference to a farther ancestor is rejected for the mismatch
C29_WitnessFarther ==
    /\ RefChecked
    /\ \E x \in 1..Len(call.refs) : Farther(x) /\ ~Beyond(x)
    /\ call.result = Raise("ValueError", "share_info invalid")

\* ------------------------------------------------------- the two indexes

StoreRead == store # NoCall /\ store.known # Nothing

\* known and known_desired hold the same files, and what is wanted of a file
\* is on record for it
IndexesAgree ==
    StoreRead =>
        LET known == store.known.value
            desired == store.known_desired.value
        IN  /\ store.known_desired # Nothing
            /\ DOMAIN known = DOMAIN desired
            /\ \A f \in DOMAIN desired :
                  /\ desired[f].share_hashes \subseteq known[f].share_hashes
                  /\ desired[f].verified_hashes \subseteq known[f].verified_hashes

\* the files of the index d that hold the hash under the field
Holding(d, field, hash) == {f \in DOMAIN d : hash \in d[f][field]}

\* the files on disk with a line that stands for the hash of the last add
OnDisk(files) ==
    {f \in DOMAIN files :
        \E i \in 1..Len(files[f].lines) :
           files[f].lines[i].means = LastOp.line.means}

\* C30: once get_shares has been read to the end, known and known_desired
\* have the same file names and the wanted sets of each file are subsets of
\* the sets on record; adding a hash that known has on record in some file
\* writes no line and only marks it wanted in one such file; a line is
\* written only for a hash that no file on record and no file on disk holds.
C30_IndexesConsistent ==
    /\ IndexesAgree
    /\ LastOp.status = "ok" /\ LastOp.name \in {"add_share", "add_verified_hash"}
       => LET before == LastOp.before
              field == FieldOf(LastOp.name)
              recorded == Holding(before.known.value, field, LastOp.hash)
          IN  IF recorded # {}
              THEN /\ LastOp.wrote = Nothing
                   /\ store.files = before.files
                   /\ store.known = before.known
                   /\ \E f \in recorded :
                         store.known_desired.value =
                             [before.known_desired.value
                                 EXCEPT ![f][field] = @ \cup {LastOp.hash}]
              ELSE /\ LastOp.wrote # Nothing
                   /\ OnDisk(before.files) = {}
                   /\ OnDisk(store.files) = {LastOp.wrote.value}
                   /\ Holding(store.known.value, field, LastOp.hash) = {LastOp.wrote.value}
                   /\ Holding(store.known_desired.value, field, LastOp.hash)
                         = {LastOp.wrote.value}

\* a hash on record in a file that is still there, and wanted no more, is
\* added again: no line is written and it is wanted again
C30_Witness ==
    /\ LastOp.status = "ok"
    /\ LastOp.name \in {"add_share", "add_verified_hash"}
    /\ LastOp.wrote = Nothing
    /\ Holding(LastOp.before.known_desired.value, FieldOf(LastOp.name), LastOp.hash) = {}
    /\ Holding(store.known_desired.value, FieldOf(LastOp.name), LastOp.hash) # {}

\* the file that held share 42 was deleted, the other file of that layout
\* is left, and the share is written again
C30_WitnessAgain ==
    /\ LastOp.status = "ok"
    /\ LastOp.name = "add_share"
    /\ LastOp.hash = 42
    /\ LastOp.wrote # Nothing
    /\ DOMAIN LastOp.before.files = {2}

====
